---- MODULE Spec2Model ----
(***************************************************************************)
(* State graph execution engine of go-agents-orchestration (pkg/state):    *)
(* immutable State, in-memory checkpoint store, stateGraph.Execute and     *)
(* stateGraph.Resume.                                                      *)
(*                                                                         *)
(* One run of a graph is modelled step by step.  The traversal loop of     *)
(* Execute is cut at the points where it talks to the outside (observer,   *)
(* node, checkpoint store): top of the loop, node execution, checkpoint    *)
(* save, exit check with cleanup, edge evaluation.  The process may die    *)
(* between any two steps (Crash); Resume may be called on a run that is    *)
(* no longer active.  A second specification adds the faults the loop      *)
(* handles itself: the context is cancelled, the store fails a Save.       *)
(*                                                                         *)
(* The bounded parallel pattern (pkg/workflows, ProcessParallel) is a      *)
(* specification of its own, ParSpec: a work queue, a pool of workers, a   *)
(* result channel, the background collector and the caller waiting for     *)
(* them, every goroutine taking its steps in any order; ObsSpec is the     *)
(* same with a recording observer and a progress callback.                 *)
(*                                                                         *)
(* Further specifications: StoreSpec, the in-memory checkpoint store and   *)
(* its reader/writer lock under two callers; RegistrySpec, the observer    *)
(* and checkpoint-store registries under two callers; StateSpec, the       *)
(* State operations on States that hold a reference to their map;          *)
(* ConcSpec, two Execute calls of one graph sharing the store; BuildSpec,  *)
(* the construction of a graph call by call; FlowSpec, the sequential      *)
(* fold (ProcessChain) and the conditional router (ProcessConditional);    *)
(* FreshSpec, Execute on graphs with a node that returns a State of its    *)
(* own making.                                                             *)
(***************************************************************************)
EXTENDS Integers, Sequences, FiniteSets, TLC

\* ---------------------------------------------------------------- bounds
\* node names of the graphs explored
Nodes == {"a", "b"}
\* cfg.MaxIterations of the explored graphs
MaxIter == 3
\* cfg.Checkpoint.Interval ranges over 0..MaxInterval
MaxInterval == 2
\* total number of AddEdge calls that built the graph
MaxEdges == 2
\* number of Resume calls made on the run
MaxResumes == 1
\* threshold of the data-dependent predicates and nodes of the workload
Threshold == 2
\* number of items handed to ProcessParallel
MaxItems == 3
\* cfg.MaxWorkers and cfg.WorkerCap of the explored parallel configurations
MaxWorkers == 2
\* calls made on the checkpoint store by all goroutines together
MaxCalls == 3
\* Clone / Set / Merge / SetCheckpointNode calls made on the States of a caller
MaxStateOps == 2
\* AddNode / AddEdge / SetEntryPoint / SetExitPoint / Validate calls made on
\* a graph under construction
MaxBuild == 5

\* ---------------------------------------------------------------- State
\* the run identifier assigned by state.New (uuid)
RunID == "r1"

NoData == [k \in {} |-> 0]

\* State{} : the zero value returned next to construction and resume errors
ZeroState == [data |-> NoData, runID |-> "", checkpointNode |-> "", timestamp |-> 0]

\* state.New followed by Set("n", 0): the initial State handed to Execute
New(now) == [data |-> [k \in {"n"} |-> 0], runID |-> RunID, checkpointNode |-> "", timestamp |-> now]

\* State.Get: value and presence flag
Get(s, key) == IF key \in DOMAIN s.data THEN <<s.data[key], TRUE>> ELSE <<0, FALSE>>

\* State.Clone: copies the map and every provenance field
Clone(s) == [data |-> [k \in DOMAIN s.data |-> s.data[k]], runID |-> s.runID, checkpointNode |-> s.checkpointNode, timestamp |-> s.timestamp]

\* State.Set: clone, then store key = value in the clone
Set(s, key, value) == [Clone(s) EXCEPT !.data = [k \in DOMAIN s.data \cup {key} |-> IF k = key THEN value ELSE s.data[k]]]

\* State.SetCheckpointNode: clone, new checkpointNode, timestamp = time.Now()
SetCheckpointNode(s, node, now) == [Clone(s) EXCEPT !.checkpointNode = node, !.timestamp = now]

\* ------------------------------------------------------ checkpoint store
EmptyStore == [r \in {} |-> ZeroState]

\* Save with the fault "an existing checkpoint is kept"
Save_KeepFirst(st, s) == [r \in DOMAIN st \cup {s.runID} |-> IF r \in DOMAIN st THEN st[r] ELSE s]

\* memoryCheckpointStore.Save: m.states[state.RunID()] = state
Save(st, s) == [r \in DOMAIN st \cup {s.runID} |-> IF r = s.runID THEN s ELSE st[r]]

\* memoryCheckpointStore.Load: the State and a found flag
Load(st, runID) == IF runID \in DOMAIN st THEN <<st[runID], TRUE>> ELSE <<ZeroState, FALSE>>

\* Delete with the fault "every checkpoint is removed"
Delete_All(st, runID) == [r \in {} |-> ZeroState]

\* memoryCheckpointStore.Delete: delete(m.states, runID)
Delete(st, runID) == [r \in DOMAIN st \ {runID} |-> st[r]]

\* State.Checkpoint: store.Save(s)
Checkpoint(s, st) == Save(st, s)

\* ------------------------------------------------------------- workload
\* Nodes and predicates are deterministic functions of the State data.
\* A node of kind "inc" returns state.Set("n", n+1); a node of kind
\* "failGe" does the same while n < Threshold and after that returns the
\* State it had written to together with an error.
NodeKinds == {"inc", "failGe"}

\* Predicate kinds: "nil" is the nil predicate of an unconditional edge,
\* "ge" is func(s) bool { n >= Threshold }.
Preds == {"nil", "ge"}

Counter(s) == Get(s, "n")[1]

\* StateNode.Execute: the new State and an error flag.  A node of kind
\* "fresh" builds its result on a State of its own, state.New(...), which
\* carries another runID.
NodeExecute(kind, s) ==
    [state |-> IF kind = "fresh"
               THEN [Set(s, "n", Counter(s) + 1) EXCEPT !.runID = "r2"]
               ELSE Set(s, "n", Counter(s) + 1),
     err |-> kind = "failGe" /\ Counter(s) >= Threshold]

\* edge.Predicate == nil || edge.Predicate(state)
PredicateHolds(pred, s) == pred = "nil" \/ (pred = "ge" /\ Counter(s) >= Threshold)

\* ---------------------------------------------------------------- graphs
SeqsUpTo(S, n) == UNION {[1..k -> S] : k \in 0..n}

EdgeLists(from) == SeqsUpTo([From : {from}, To : Nodes, Predicate : Preds], MaxEdges)

RECURSIVE SumLen(_, _)
SumLen(edges, froms) ==
    IF froms = {} THEN 0
    ELSE LET f == CHOOSE x \in froms : TRUE
         IN Len(edges[f]) + SumLen(edges, froms \ {f})

\* The graphs a sequence of successful AddNode, AddEdge (at most MaxEdges),
\* SetEntryPoint and SetExitPoint calls on a NewGraph can build.  edges[n]
\* is the insertion-ordered list g.edges[n]; an empty list stands for a
\* missing map key.  nodes maps each registered name to its node.
Graphs ==
    {[nodes |-> kinds, edges |-> e, entryPoint |-> "a", exitPoints |-> x,
      maxIterations |-> MaxIter, checkpointInterval |-> i, preserveCheckpoints |-> p] :
        kinds \in [Nodes -> NodeKinds],
        e \in {f \in [Nodes -> UNION {EdgeLists(n) : n \in Nodes}] :
                  /\ \A n \in Nodes : \A k \in 1..Len(f[n]) : f[n][k].From = n
                  /\ SumLen(f, Nodes) <= MaxEdges},
        x \in SUBSET Nodes,
        i \in 0..MaxInterval,
        p \in BOOLEAN}

\* Validate without the check that an exit point is set
Validate_NoExitCount(g) ==
    IF DOMAIN g.nodes = {} THEN "graph has no nodes"
    ELSE IF g.entryPoint = "" THEN "entry point not set"
    ELSE IF g.entryPoint \notin DOMAIN g.nodes THEN "entry point does not exist"
    ELSE IF \E x \in g.exitPoints : x \notin DOMAIN g.nodes THEN "exit point does not exist"
    ELSE ""

\* stateGraph.Validate: "" when the structure is accepted, else the error
Validate(g) ==
    IF DOMAIN g.nodes = {} THEN "graph has no nodes"
    ELSE IF g.entryPoint = "" THEN "entry point not set"
    ELSE IF g.entryPoint \notin DOMAIN g.nodes THEN "entry point does not exist"
    ELSE IF g.exitPoints = {} THEN "no exit points set"
    ELSE IF \E x \in g.exitPoints : x \notin DOMAIN g.nodes THEN "exit point does not exist"
    ELSE ""

\* ------------------------------------------------------------------ runs
\* observability.Event as the observer receives it; iter is the value of
\* `iterations` when the event was emitted, count the visit_count of a
\* CycleDetected event (0 in the other events).
Ev(type, node, iter, to, flag) == [type |-> type, node |-> node, iter |-> iter, to |-> to, flag |-> flag, count |-> 0]

\* The locals of one Execute or Resume call.  When the call has returned
\* (pc "completed" or "failed") state is the returned State, err the error
\* and current / path the NodeName / Path of the ExecutionError.
IdleRun ==
    [kind |-> "none", pc |-> "idle", current |-> "", state |-> ZeroState,
     iterations |-> 0, visited |-> [n \in Nodes |-> 0], path |-> <<>>,
     events |-> <<>>, err |-> ""]

\* observer.OnEvent
Emit(r, e) == [r EXCEPT !.events = Append(@, e)]

\* return state, err
Return(r, s, e) == [r EXCEPT !.pc = IF e = "" THEN "completed" ELSE "failed", !.state = s, !.err = e]

\* A machine m is [run, store, clock, ctx]: the locals of the call, the
\* shared checkpoint store, the wall clock read by time.Now() and the
\* context the call was given ("live" or "cancelled").

\* Execute, up to the loop: validation, GraphStart, the locals
ExecuteCall(g, m, initialState) ==
    LET r0 == [IdleRun EXCEPT !.kind = "execute", !.state = initialState]
    IN  IF Validate(g) # ""
        THEN [m EXCEPT !.run = Return(r0, initialState, "graph validation failed")]
        ELSE [m EXCEPT !.run = [Emit(r0, Ev("GraphStart", g.entryPoint, 0, "", FALSE))
                                   EXCEPT !.pc = "top", !.current = g.entryPoint]]

\* the cap check with the fault "never fires"
CapExceeded_Never(g, iterations) == FALSE

\* the cap check with the fault "one iteration too many"
CapExceeded_OffByOne(g, iterations) == iterations > g.maxIterations + 1

\* iterations > g.maxIterations
CapExceeded(g, iterations) == iterations > g.maxIterations

\* the cancellation check with the fault "the context is not looked at"
Cancelled_Never(c) == FALSE

\* ctx.Err() != nil
Cancelled(c) == c = "cancelled"

\* the bookkeeping with the fault "a node is entered in path once only"
Visit_Dedup(r) ==
    [r EXCEPT !.visited[r.current] = @ + 1,
              !.path = IF r.visited[r.current] = 0 THEN Append(@, r.current) ELSE @]

\* visited[current]++; path = append(path, current)
Visit(r) == [r EXCEPT !.visited[r.current] = @ + 1, !.path = Append(@, r.current)]

\* the cycle check with the fault "reported on the second visit only"
CycleSeen_SecondOnly(count) == count = 2

\* visited[current] > 1
CycleSeen(count) == count > 1

\* Top of the loop: cancellation, iteration cap, visited / path
\* bookkeeping, cycle detection, node lookup, NodeStart
LoopTop(g, m) ==
    LET r  == m.run
        it == r.iterations + 1
        r1 == [r EXCEPT !.iterations = it]
    IN  IF Cancelled(m.ctx)
        THEN [m EXCEPT !.run = Return(r, r.state, "execution cancelled")]
        ELSE IF CapExceeded(g, it)
        THEN [m EXCEPT !.run = Return(r1, r.state, "max iterations exceeded")]
        ELSE LET r2 == Visit(r1)
                 r3 == IF CycleSeen(r2.visited[r.current])
                       THEN Emit(r2, [Ev("CycleDetected", r.current, it, "", FALSE)
                                         EXCEPT !.count = r2.visited[r.current]])
                       ELSE r2
             IN  IF r.current \notin DOMAIN g.nodes
                 THEN [m EXCEPT !.run = Return(r3, r.state, "node not found")]
                 ELSE [m EXCEPT !.run = [Emit(r3, Ev("NodeStart", r.current, it, "", FALSE))
                                            EXCEPT !.pc = "node"]]

\* RunNode with the fault "the error return cleans the checkpoint up"
RunNode_Cleanup(g, m) ==
    LET r   == m.run
        res == NodeExecute(g.nodes[r.current], r.state)
        r1  == Emit(r, Ev("NodeComplete", r.current, r.iterations, "", res.err))
    IN  IF res.err
        THEN [m EXCEPT !.run = Return(r1, r.state, "node execution failed"),
                       !.store = Delete(@, r.state.runID)]
        ELSE [m EXCEPT !.run = [r1 EXCEPT !.state = SetCheckpointNode(res.state, r.current, m.clock),
                                          !.pc = "save"],
                       !.clock = @ + 1]

\* RunNode with the fault "the error return hands back the node's output"
RunNode_ReturnsOutput(g, m) ==
    LET r   == m.run
        res == NodeExecute(g.nodes[r.current], r.state)
        r1  == Emit(r, Ev("NodeComplete", r.current, r.iterations, "", res.err))
    IN  IF res.err
        THEN [m EXCEPT !.run = Return(r1, res.state, "node execution failed")]
        ELSE [m EXCEPT !.run = [r1 EXCEPT !.state = SetCheckpointNode(res.state, r.current, m.clock),
                                          !.pc = "save"],
                       !.clock = @ + 1]

\* node.Execute, NodeComplete, the error return, SetCheckpointNode
RunNode(g, m) ==
    LET r   == m.run
        res == NodeExecute(g.nodes[r.current], r.state)
        r1  == Emit(r, Ev("NodeComplete", r.current, r.iterations, "", res.err))
    IN  IF res.err
        THEN [m EXCEPT !.run = Return(r1, r.state, "node execution failed")]
        ELSE [m EXCEPT !.run = [r1 EXCEPT !.state = SetCheckpointNode(res.state, r.current, m.clock),
                                          !.pc = "save"],
                       !.clock = @ + 1]

\* the interval check with the fault "one iteration late"
CheckpointDue_Late(g, iterations) ==
    g.checkpointInterval > 0 /\ iterations % (g.checkpointInterval + 1) = 0

\* the interval check with the fault "every iteration is due"
CheckpointDue_Every(g, iterations) == g.checkpointInterval > 0

\* g.checkpointInterval > 0 && iterations%g.checkpointInterval == 0
CheckpointDue(g, iterations) == g.checkpointInterval > 0 /\ iterations % g.checkpointInterval = 0

\* The checkpoint save of the iteration and its CheckpointSave event
SaveCheckpoint(g, m) ==
    LET r == m.run
    IN  IF CheckpointDue(g, r.iterations)
        THEN [m EXCEPT !.store = Checkpoint(r.state, m.store),
                       !.run = [Emit(r, Ev("CheckpointSave", r.current, r.iterations, "", FALSE))
                                   EXCEPT !.pc = "exit"]]
        ELSE [m EXCEPT !.run.pc = "exit"]

\* the failed save with the fault "the error of Save is dropped"
SaveFailed_Ignored(g, m) ==
    [m EXCEPT !.run = [Emit(m.run, Ev("CheckpointSave", m.run.current, m.run.iterations, "", FALSE))
                          EXCEPT !.pc = "exit"]]

\* The checkpoint save of an iteration in which store.Save returns an
\* error: the store keeps what it had, the call returns the failure
SaveFailed(g, m) == [m EXCEPT !.run = Return(m.run, m.run.state, "checkpoint save failed")]

\* the cleanup check with the fault "preserve is not looked at"
CleanupDue_Always(g) == g.checkpointInterval > 0

\* !g.preserveCheckpoints && g.checkpointInterval > 0
CleanupDue(g) == ~g.preserveCheckpoints /\ g.checkpointInterval > 0

\* The exit point check: GraphComplete, checkpoint cleanup, return
ExitCheck(g, m) ==
    LET r == m.run
    IN  IF r.current \in g.exitPoints
        THEN [m EXCEPT !.run = Return(Emit(r, Ev("GraphComplete", r.current, r.iterations, "", FALSE)), r.state, ""),
                       !.store = IF CleanupDue(g) THEN Delete(m.store, r.state.runID) ELSE @]
        ELSE [m EXCEPT !.run.pc = "edges"]

\* the scan with the fault "no break: the last matching edge wins"
ScanEdges_Last(edges, i, s) ==
    IF \E k \in i..Len(edges) : PredicateHolds(edges[k].Predicate, s)
    THEN CHOOSE k \in i..Len(edges) :
            /\ PredicateHolds(edges[k].Predicate, s)
            /\ \A j \in (k + 1)..Len(edges) : ~PredicateHolds(edges[j].Predicate, s)
    ELSE 0

\* for i, edge := range edges { ... break }: the index of the edge taken
\* when the scan starts at index i, 0 when no edge from i on matches
RECURSIVE ScanEdges(_, _, _)
ScanEdges(edges, i, s) ==
    IF i > Len(edges) THEN 0
    ELSE IF PredicateHolds(edges[i].Predicate, s) THEN i
    ELSE ScanEdges(edges, i + 1, s)

\* the events of the scan with the fault "no break after the match"
RECURSIVE ScanEvents_NoBreak(_, _, _, _)
ScanEvents_NoBreak(edges, i, s, it) ==
    IF i > Len(edges) THEN <<>>
    ELSE LET ev == Ev("EdgeEvaluate", edges[i].From, it, edges[i].To, edges[i].Predicate # "nil")
         IN  (IF PredicateHolds(edges[i].Predicate, s)
              THEN <<ev, Ev("EdgeTransition", edges[i].From, it, edges[i].To, FALSE)>>
              ELSE <<ev>>) \o ScanEvents_NoBreak(edges, i + 1, s, it)

\* The events of the scan: one EdgeEvaluate per edge looked at (edge_index
\* counts from 0), and EdgeTransition right after the one that matched
RECURSIVE ScanEvents(_, _, _, _)
ScanEvents(edges, i, s, it) ==
    IF i > Len(edges) THEN <<>>
    ELSE LET ev == Ev("EdgeEvaluate", edges[i].From, it, edges[i].To, edges[i].Predicate # "nil")
         IN  IF PredicateHolds(edges[i].Predicate, s)
             THEN <<ev, Ev("EdgeTransition", edges[i].From, it, edges[i].To, FALSE)>>
             ELSE <<ev>> \o ScanEvents(edges, i + 1, s, it)

\* EvaluateEdges with the fault "a node without edges ends the graph"
EvaluateEdges_DeadEndOk(g, m) ==
    LET r     == m.run
        edges == g.edges[r.current]
        k     == ScanEdges(edges, 1, r.state)
        r1    == [r EXCEPT !.events = @ \o ScanEvents(edges, 1, r.state, r.iterations)]
    IN  IF Len(edges) = 0
        THEN [m EXCEPT !.run = Return(r, r.state, "")]
        ELSE IF k = 0
        THEN [m EXCEPT !.run = Return(r1, r.state, "no valid transition")]
        ELSE [m EXCEPT !.run = [r1 EXCEPT !.current = edges[k].To, !.pc = "top"]]

\* Edge evaluation of Execute: dead end, first matching edge, no transition
EvaluateEdges(g, m) ==
    LET r     == m.run
        edges == g.edges[r.current]
        k     == ScanEdges(edges, 1, r.state)
        r1    == [r EXCEPT !.events = @ \o ScanEvents(edges, 1, r.state, r.iterations)]
    IN  IF Len(edges) = 0
        THEN [m EXCEPT !.run = Return(r, r.state, "no outgoing edges and not an exit point")]
        ELSE IF k = 0
        THEN [m EXCEPT !.run = Return(r1, r.state, "no valid transition")]
        ELSE [m EXCEPT !.run = [r1 EXCEPT !.current = edges[k].To, !.pc = "top"]]

\* ---------------------------------------------------------------- resume
\* findNextNode with the fault "resume runs the checkpointed node again"
findNextNode_Rerun(g, fromNode, s) ==
    LET edges == IF fromNode \in DOMAIN g.edges THEN g.edges[fromNode] ELSE <<>>
    IN  IF Len(edges) = 0 \/ ScanEdges(edges, 1, s) = 0
        THEN [node |-> "", err |-> "no valid edge transition from checkpoint node"]
        ELSE [node |-> fromNode, err |-> ""]

\* findNextNode with the fault "the first edge is taken, predicate or not"
findNextNode_FirstEdge(g, fromNode, s) ==
    LET edges == IF fromNode \in DOMAIN g.edges THEN g.edges[fromNode] ELSE <<>>
    IN  IF Len(edges) = 0
        THEN [node |-> "", err |-> "no outgoing edges from checkpoint node"]
        ELSE [node |-> edges[1].To, err |-> ""]

\* findNextNode: the node to resume at and "" , or "" and the error
findNextNode(g, fromNode, s) ==
    LET edges == IF fromNode \in DOMAIN g.edges THEN g.edges[fromNode] ELSE <<>>
        k     == ScanEdges(edges, 1, s)
    IN  IF Len(edges) = 0
        THEN IF fromNode \in g.exitPoints
             THEN [node |-> "", err |-> "checkpoint was at exit point, execution already complete"]
             ELSE [node |-> "", err |-> "no outgoing edges from checkpoint node"]
        ELSE IF k = 0
        THEN [node |-> "", err |-> "no valid edge transition from checkpoint node"]
        ELSE [node |-> edges[k].To, err |-> ""]

\* executeFrom with the fault "the loop starts at the entry point"
executeFrom_Entry(g, r, startNode, initialState) ==
    IF Validate(g) # ""
    THEN Return(r, ZeroState, "graph validation failed")
    ELSE [r EXCEPT !.pc = "top", !.current = g.entryPoint, !.state = initialState]

\* executeFrom, up to the loop: validation and the locals (no GraphStart)
executeFrom(g, r, startNode, initialState) ==
    IF Validate(g) # ""
    THEN Return(r, ZeroState, "graph validation failed")
    ELSE [r EXCEPT !.pc = "top", !.current = startNode, !.state = initialState]

\* Resume: store configured, Load, CheckpointLoad, findNextNode,
\* CheckpointResume, executeFrom
Resume(g, m, runID) ==
    LET r0 == [IdleRun EXCEPT !.kind = "resume"]
        ld == Load(m.store, runID)
        s  == ld[1]
        r1 == Emit(r0, Ev("CheckpointLoad", s.checkpointNode, 0, "", FALSE))
        nx == findNextNode(g, s.checkpointNode, s)
        r2 == Emit(r1, Ev("CheckpointResume", s.checkpointNode, 0, nx.node, FALSE))
    IN  IF ~(g.checkpointInterval > 0)
        THEN [m EXCEPT !.run = Return(r0, ZeroState, "checkpointing not enabled for this graph")]
        ELSE IF ~ld[2]
        THEN [m EXCEPT !.run = Return(r0, ZeroState, "failed to load checkpoint")]
        ELSE IF nx.err # ""
        THEN [m EXCEPT !.run = Return(r1, ZeroState, nx.err)]
        ELSE [m EXCEPT !.run = executeFrom(g, r2, nx.node, s)]

\* The events of executeFrom's edge loop: it evaluates every edge and emits
\* one EdgeEvaluate for each (flag is the predicate result)
EvaluateEvents(edges, s, it) ==
    [i \in 1..Len(edges) |->
        Ev("EdgeEvaluate", edges[i].From, it, edges[i].To, PredicateHolds(edges[i].Predicate, s))]

\* Edge evaluation of executeFrom: dead end, every edge evaluated, the first
\* match kept, no transition, EdgeTransition
EvaluateEdgesFrom(g, m) ==
    LET r     == m.run
        edges == g.edges[r.current]
        k     == ScanEdges(edges, 1, r.state)
        r1    == [r EXCEPT !.events = @ \o EvaluateEvents(edges, r.state, r.iterations)]
    IN  IF Len(edges) = 0
        THEN [m EXCEPT !.run = Return(r, r.state, "no outgoing edges from node")]
        ELSE IF k = 0
        THEN [m EXCEPT !.run = Return(r1, r.state, "no valid edge transition from node")]
        ELSE [m EXCEPT !.run = [Emit(r1, Ev("EdgeTransition", r.current, r.iterations, edges[k].To, FALSE))
                                   EXCEPT !.current = edges[k].To, !.pc = "top"]]

\* ------------------------------------------------------- the whole loop
Active == {"top", "node", "save", "exit", "edges"}

Returned == {"completed", "failed"}

\* One step of the traversal loop from wherever the call stands
Step(g, m) ==
    CASE m.run.pc = "top"   -> LoopTop(g, m)
      [] m.run.pc = "node"  -> RunNode(g, m)
      [] m.run.pc = "save"  -> SaveCheckpoint(g, m)
      [] m.run.pc = "exit"  -> ExitCheck(g, m)
      [] m.run.pc = "edges" -> IF m.run.kind = "resume" THEN EvaluateEdgesFrom(g, m) ELSE EvaluateEdges(g, m)
      [] OTHER              -> m

\* Steps one call can take: five per iteration, one iteration past the cap
MaxSteps == 5 * (MaxIter + 2)

\* The call run to its return, nobody interrupting it
RECURSIVE RunToEnd(_, _, _)
RunToEnd(g, m, fuel) == IF m.run.pc \in Active /\ fuel > 0 THEN RunToEnd(g, Step(g, m), fuel - 1) ELSE m

InitialState == New(0)

\* Execute(graph, s0) on an empty store, uninterrupted
Uninterrupted(g) ==
    RunToEnd(g, ExecuteCall(g, [run |-> IdleRun, store |-> EmptyStore, clock |-> 1, ctx |-> "live"], InitialState), MaxSteps).run

\* ------------------------------------------------------ bounded parallel
\* runtime.NumCPU() of the machine
NumCPU == 1

\* An item is [id, bad]: the processor maps a good item to a result that
\* names it and returns an error for a bad one
NoItem == [id |-> 0, bad |-> FALSE]

\* ItemProcessor: the result and the error of one item
Processor(item) ==
    IF item.bad THEN [value |-> <<>>, err |-> "boom"] ELSE [value |-> <<"result", item.id>>, err |-> ""]

\* ParallelConfig: both modes, the worker count auto-detected or set, the
\* cap at its smallest and at its largest
ParallelConfigs == [failFast : BOOLEAN, maxWorkers : {0, MaxWorkers}, workerCap : {1, MaxWorkers}]

Min(a, b) == IF a <= b THEN a ELSE b

\* the worker count with the fault "0 is taken as a worker count"
calculateWorkerCount_NoAuto(maxWorkers, workerCap, itemCount) ==
    Min(Min(maxWorkers, workerCap), itemCount)

\* workers = min(min(maxWorkers, workerCap), len(items)), maxWorkers being
\* runtime.NumCPU()*2 when it is 0
calculateWorkerCount(maxWorkers, workerCap, itemCount) ==
    Min(Min(IF maxWorkers = 0 THEN NumCPU * 2 ELSE maxWorkers, workerCap), itemCount)

\* the capacity with the fault "one slot instead of one per item"
ResultCap_One(itemCount) == 1

\* capacity of the result channel: make(chan ..., len(items))
ResultCap(itemCount) == itemCount

NoWork == [index |-> -1, item |-> NoItem]

NoMap == [i \in {} |-> ""]

\* ParallelResult and the error returned next to it
NoRet == [results |-> <<>>, errors |-> <<>>, err |-> FALSE]

\* an event of the parallel pattern: its type, the item index of a worker
\* event, the error flag of WorkerComplete, and the two counts of
\* ParallelStart (workers, items) and ParallelComplete (succeeded, failed)
PEv(type, index, error, a, b) == [type |-> type, index |-> index, error |-> error, a |-> a, b |-> b]

\* One ProcessParallel invocation.  pc is the caller's position, w[k] the
\* position of worker k, the work it holds, the result it is about to
\* submit and the count its increment of the progress counter returned,
\* ch the result channel, closed whether it was closed, cancelled
\* the fail-fast child context, results / errors the collector's maps keyed
\* by original index, received the number of results the collector has
\* read, processed (bookkeeping only) the indices handed to the processor.
\* observer: the configured observer records (TRUE) or is the no-op one;
\* events: what it recorded.  progress: a progress callback was passed;
\* calls: the completed counts it was invoked with, in order of invocation;
\* completed: the atomic progress counter.
IdlePar ==
    [pc |-> "idle", cfg |-> [failFast |-> FALSE, maxWorkers |-> 0, workerCap |-> 1], items |-> <<>>,
     workers |-> 0, queue |-> <<>>, w |-> <<>>, ch |-> <<>>, closed |-> FALSE, cancelled |-> FALSE,
     results |-> NoMap, errors |-> NoMap, received |-> 0, collector |-> "idle",
     processed |-> {}, ret |-> NoRet,
     observer |-> FALSE, events |-> <<>>, progress |-> FALSE, calls |-> <<>>, completed |-> 0]

\* observer.OnEvent: the no-op observer drops the event
ParEmit(p, e) == IF p.observer THEN [p EXCEPT !.events = Append(@, e)] ELSE p

\* ProcessParallel up to the point where it waits for the workers: empty
\* input, worker count, the filled and closed work queue, the result
\* channel, the collector and the workers started
ProcessParallel(p) ==
    LET n == Len(p.items)
        k == calculateWorkerCount(p.cfg.maxWorkers, p.cfg.workerCap, n)
    IN  IF n = 0
        THEN [p EXCEPT !.pc = "returned", !.ret = NoRet]
        ELSE [ParEmit(p, PEv("ParallelStart", -1, FALSE, k, n))
                  EXCEPT !.pc = "waiting",
                         !.workers = k,
                         !.queue = [i \in 1..n |-> [index |-> i - 1, item |-> p.items[i]]],
                         !.w = [j \in 1..k |-> [pc |-> "idle", work |-> NoWork, res |-> NoWork, count |-> 0]],
                         !.collector = "running"]

\* processWorker, the head of its loop: the context is done or the queue
\* is drained and the worker returns, else it takes the next work item and
\* emits WorkerStart
WorkerTake(p, j) ==
    IF p.cancelled \/ p.queue = <<>>
    THEN [p EXCEPT !.w[j].pc = "done"]
    ELSE [ParEmit(p, PEv("WorkerStart", Head(p.queue).index, FALSE, 0, 0))
             EXCEPT !.w[j].pc = "proc", !.w[j].work = Head(p.queue), !.queue = Tail(p.queue)]

\* the progress counter is incremented for a successful item only
Counted(err) == err = ""

\* processWorker: the processor is called on the item and returns; after a
\* success the atomic progress counter is incremented, and the worker keeps
\* the count the increment returned when there is a callback to pass it to
WorkerProcess(p, j) ==
    LET work == p.w[j].work
        out  == Processor(work.item)
        n    == IF Counted(out.err) THEN p.completed + 1 ELSE p.completed
    IN  [p EXCEPT !.w[j].pc = "send",
                  !.w[j].res = [index |-> work.index, item |-> work.item, value |-> out.value, err |-> out.err],
                  !.w[j].count = IF Counted(out.err) /\ p.progress THEN n ELSE 0,
                  !.completed = n,
                  !.processed = @ \cup {work.index}]

\* the count with the fault "the counter is read again at the callback"
ProgressCount_Reload(count, completed) == completed

\* the count passed to the callback: the one its own increment returned
ProgressCount(count, completed) == count

\* WorkerSend with the fault "an error stops the siblings in both modes"
WorkerSend_CancelsAlways(p, j) ==
    LET res == p.w[j].res
        q   == ParEmit(p, PEv("WorkerComplete", res.index, res.err # "", 0, 0))
    IN  [q EXCEPT !.calls = IF p.w[j].count > 0 THEN Append(@, ProgressCount(p.w[j].count, p.completed)) ELSE @,
                  !.ch = Append(@, res),
                  !.cancelled = @ \/ res.err # "",
                  !.w[j].pc = "idle", !.w[j].work = NoWork, !.w[j].res = NoWork, !.w[j].count = 0]

\* processWorker: the progress callback is invoked after a success,
\* WorkerComplete is emitted and the indexed result is submitted; in
\* fail-fast mode an error cancels the child context
WorkerSend(p, j) ==
    LET res == p.w[j].res
        q   == ParEmit(p, PEv("WorkerComplete", res.index, res.err # "", 0, 0))
    IN  [q EXCEPT !.calls = IF p.w[j].count > 0 THEN Append(@, ProgressCount(p.w[j].count, p.completed)) ELSE @,
                  !.ch = Append(@, res),
                  !.cancelled = @ \/ (p.cfg.failFast /\ res.err # ""),
                  !.w[j].pc = "idle", !.w[j].work = NoWork, !.w[j].res = NoWork, !.w[j].count = 0]

MapPut(f, k, v) == [i \in DOMAIN f \cup {k} |-> IF i = k THEN v ELSE f[i]]

\* the key with the fault "results are keyed by order of arrival"
CollectKey_Arrival(res, received) == received

\* the key a result is stored under: its original index
CollectKey(res, received) == res.index

\* collectResults, one result read from the channel and stored in the map
\* of results or in the map of task errors
CollectorReceive(p) ==
    LET res == Head(p.ch)
        key == CollectKey(res, p.received)
    IN  IF res.err = ""
        THEN [p EXCEPT !.ch = Tail(@), !.received = @ + 1, !.results = MapPut(@, key, res.value)]
        ELSE [p EXCEPT !.ch = Tail(@), !.received = @ + 1,
                       !.errors = MapPut(@, key, [index |-> res.index, item |-> res.item, err |-> res.err])]

\* collectResults: the channel is closed and drained, done is signalled
CollectorDone(p) == [p EXCEPT !.collector = "done"]

\* the wait with the fault "waits for the work queue to drain"
WorkersDone_QueueDrained(p) == p.queue = <<>>

\* wg.Wait(): every worker has returned
WorkersDone(p) == \A j \in 1..p.workers : p.w[j].pc = "done"

\* ProcessParallel: wg.Wait() has returned, the result channel is closed
CloseResults(p) == [p EXCEPT !.closed = TRUE, !.pc = "draining"]

\* the entries of a map in ascending key order, keys 0..n-1
RECURSIVE InIndexOrder(_, _, _)
InIndexOrder(f, i, n) ==
    IF i >= n THEN <<>>
    ELSE (IF i \in DOMAIN f THEN <<f[i]>> ELSE <<>>) \o InIndexOrder(f, i + 1, n)

\* the return policy with the fault "collect-all fails on any error"
ReturnsError_Any(failFast, failed, total) == failed > 0

\* fail-fast: any error; collect-all: every item failed
ReturnsError(failFast, failed, total) ==
    (failFast /\ failed > 0) \/ (~failFast /\ failed = total)

\* ProcessParallel after <-done: the two ordered outputs and the error
Finish(p) ==
    LET n   == Len(p.items)
        res == InIndexOrder(p.results, 0, n)
        ers == InIndexOrder(p.errors, 0, n)
    IN  [ParEmit(p, PEv("ParallelComplete", -1, FALSE, Len(res), Len(ers)))
            EXCEPT !.pc = "returned",
                   !.ret = [results |-> res, errors |-> ers,
                            err |-> ReturnsError(p.cfg.failFast, Len(ers), n)]]

\* ------------------------------- the in-memory store, concurrent callers
\* goroutines calling the store
Callers == {"t1", "t2"}

\* the run identifiers of the States that are saved
RunIDs == {"r1", "r2"}

\* The States handed to Save: two of each run, which differ in data,
\* checkpointNode and timestamp
Saveable ==
    {[data |-> [k \in {"n"} |-> v], runID |-> r, checkpointNode |-> IF v = 1 THEN "a" ELSE "b", timestamp |-> v] :
        r \in RunIDs, v \in 1..2}

\* the calls: Save(state), Load(runID), Delete(runID), List()
StoreCalls ==
    {[op |-> "Save", state |-> x, runID |-> x.runID] : x \in Saveable}
    \cup {[op |-> o, state |-> ZeroState, runID |-> r] : o \in {"Load", "Delete"}, r \in RunIDs}
    \cup {[op |-> "List", state |-> ZeroState, runID |-> ""]}

NoCall == [op |-> "", state |-> ZeroState, runID |-> ""]

NoResult == [state |-> ZeroState, found |-> FALSE, ids |-> {}]

\* sync.RWMutex: the goroutine holding the write lock ("" when free) and
\* the goroutines holding a read lock
FreeMutex == [writer |-> "", readers |-> {}]

\* Lock() returns when no goroutine holds the lock in either mode
CanLock(mu) == mu.writer = "" /\ mu.readers = {}

\* RLock() with the fault "does not wait for the writer"
CanRLock_Always(mu) == TRUE

\* RLock() returns when no goroutine holds the write lock
CanRLock(mu) == mu.writer = ""

\* memoryCheckpointStore: the map, the mutex, the position of every caller
\* (idle, lock: waiting for m.mu, body / body2: between lock and unlock,
\* unlock: at the deferred unlock, with its result), the number of calls
\* made, and log (bookkeeping only): the Save and Delete calls in the order
\* in which they took effect
IdleStore ==
    [states |-> EmptyStore, mu |-> FreeMutex,
     th |-> [t \in Callers |-> [pc |-> "idle", call |-> NoCall, res |-> NoResult]],
     calls |-> 0, log |-> <<>>]

\* a goroutine calls Save, Load, Delete or List
StoreCall(m, t, c) == [m EXCEPT !.th[t] = [pc |-> "lock", call |-> c, res |-> NoResult], !.calls = @ + 1]

Writes(c) == c.op \in {"Save", "Delete"}

\* m.mu.Lock() / m.mu.RLock() returns
StoreLock(m, t) ==
    IF Writes(m.th[t].call)
    THEN [m EXCEPT !.mu.writer = t, !.th[t].pc = "body"]
    ELSE [m EXCEPT !.mu.readers = @ \cup {t}, !.th[t].pc = "body"]

\* m.states[state.RunID()] = state is not one machine step: the entry as
\* another goroutine may find it while the assignment is under way (the
\* key and the first words of the value written, the rest not yet)
HalfWritten(st, x) ==
    LET old == IF x.runID \in DOMAIN st THEN st[x.runID] ELSE ZeroState
    IN  Save(st, [x EXCEPT !.checkpointNode = old.checkpointNode, !.timestamp = old.timestamp])

\* the body of Save, Load, Delete and List between lock and unlock
StoreBody(m, t) ==
    LET c == m.th[t].call
    IN  CASE c.op = "Save" /\ m.th[t].pc = "body" ->
                [m EXCEPT !.states = HalfWritten(@, c.state), !.th[t].pc = "body2"]
          [] c.op = "Save" /\ m.th[t].pc = "body2" ->
                [m EXCEPT !.states = Save(@, c.state), !.th[t].pc = "unlock", !.log = Append(@, c)]
          [] c.op = "Delete" ->
                [m EXCEPT !.states = Delete(@, c.runID), !.th[t].pc = "unlock", !.log = Append(@, c)]
          [] c.op = "Load" ->
                [m EXCEPT !.th[t].pc = "unlock",
                          !.th[t].res = [state |-> Load(m.states, c.runID)[1],
                                         found |-> Load(m.states, c.runID)[2], ids |-> {}]]
          [] OTHER ->
                [m EXCEPT !.th[t].pc = "unlock",
                          !.th[t].res = [state |-> ZeroState, found |-> TRUE, ids |-> DOMAIN m.states]]

\* the deferred m.mu.Unlock() / m.mu.RUnlock(), and the call returns
StoreUnlock(m, t) ==
    IF Writes(m.th[t].call)
    THEN [m EXCEPT !.mu.writer = "", !.th[t].pc = "idle"]
    ELSE [m EXCEPT !.mu.readers = @ \ {t}, !.th[t].pc = "idle"]

\* ------------------------------------------------------- the registries
\* var observers = map[string]Observer{"noop": ..., "slog": ...}
Observers == [k \in {"noop", "slog"} |-> k]

\* var checkpointStores = map[string]CheckpointStore{"memory": ...}
CheckpointStores == [k \in {"memory"} |-> k]

\* the names looked up and registered: one the registry starts with, one
\* it does not
RegistryNames(reg) == IF reg = "observers" THEN {"noop", "custom"} ELSE {"memory", "custom"}

\* GetObserver(name), RegisterObserver(name, observer),
\* GetCheckpointStore(name), RegisterCheckpointStore(name, store); the
\* implementations registered are "x" and "y"
RegistryCalls ==
    {[fn |-> "Get", reg |-> r, name |-> n, value |-> ""] :
        r \in {"observers"}, n \in RegistryNames("observers")}
    \cup {[fn |-> "Get", reg |-> r, name |-> n, value |-> ""] :
        r \in {"checkpointStores"}, n \in RegistryNames("checkpointStores")}
    \cup {[fn |-> "Register", reg |-> r, name |-> n, value |-> v] :
        r \in {"observers"}, n \in RegistryNames("observers"), v \in {"x", "y"}}
    \cup {[fn |-> "Register", reg |-> r, name |-> n, value |-> v] :
        r \in {"checkpointStores"}, n \in RegistryNames("checkpointStores"), v \in {"x", "y"}}

NoRegistryCall == [fn |-> "", reg |-> "", name |-> "", value |-> ""]

\* The two package-level maps and the position of every caller: idle,
\* body (the function is entered, its map access not begun), body2 (the
\* map assignment is under way), ret (about to return, with its result);
\* calls: the number of calls made
IdleRegistry ==
    [observers |-> Observers, checkpointStores |-> CheckpointStores,
     th |-> [t \in Callers |-> [pc |-> "idle", call |-> NoRegistryCall, res |-> ""]],
     calls |-> 0]

\* a goroutine calls one of the four functions; none of them takes a lock
RegistryCall(g, t, c) == [g EXCEPT !.th[t] = [pc |-> "body", call |-> c, res |-> ""], !.calls = @ + 1]

\* another goroutine is in the middle of an assignment to the same map
WriteUnderWay(g, t) ==
    \E u \in Callers \ {t} : g.th[u].pc = "body2" /\ g.th[u].call.reg = g.th[t].call.reg

\* obs, exists := observers[name]: the implementation, or "unknown" for
\* the error
Lookup(map, name) == IF name \in DOMAIN map THEN map[name] ELSE "unknown"

\* What a map read that overlaps a map write can produce (a data race):
\* the entry before or after the write, a missing entry, or the runtime's
\* "fatal error: concurrent map read and map write"
RaceOutcomes(g, t) ==
    LET c == g.th[t].call
        w == {g.th[u].call : u \in {u \in Callers \ {t} : g.th[u].pc = "body2" /\ g.th[u].call.reg = c.reg}}
    IN  {Lookup(g[c.reg], c.name), "unknown", "fatal"} \cup {x.value : x \in {y \in w : y.name = c.name}}

\* the outcomes of the map read of Get
GetOutcomes(g, t) ==
    IF WriteUnderWay(g, t) THEN RaceOutcomes(g, t)
    ELSE {Lookup(g[g.th[t].call.reg], g.th[t].call.name)}

\* GetObserver / GetCheckpointStore: the map read, with outcome out
RegistryGet(g, t, out) == [g EXCEPT !.th[t].pc = "ret", !.th[t].res = out]

\* RegisterObserver / RegisterCheckpointStore: observers[name] = observer
\* begins, and ends with the entry written
RegistryRegister(g, t) ==
    LET c == g.th[t].call
    IN  IF g.th[t].pc = "body"
        THEN [g EXCEPT !.th[t].pc = "body2"]
        ELSE [g EXCEPT ![c.reg] = [k \in DOMAIN @ \cup {c.name} |-> IF k = c.name THEN c.value ELSE @[k]],
                       !.th[t].pc = "ret"]

\* the function returns
RegistryReturn(g, t) == [g EXCEPT !.th[t].pc = "idle"]

\* ------------------------------------------------- State values in memory
\* A State struct holds a reference to its data map: maps[a] is the map at
\* address a, and the data field of a State is such an address.
Keys == {"k1", "k2"}

Values == {1, 2}

\* the maps a State can hold at the start
DataMaps == UNION {[d -> Values] : d \in SUBSET Keys}

\* maps.Clone with the fault "the map is shared, not copied"
mapsClone_Shared(maps, a) == [maps |-> maps, addr |-> a]

\* maps.Clone(s.data): a new map with the same entries
mapsClone(maps, a) == [maps |-> Append(maps, maps[a]), addr |-> Len(maps) + 1]

\* State.Clone with the fault "fields of the zero State"
StateClone_Zero(maps, s) ==
    [maps  |-> mapsClone(maps, s.data).maps,
     state |-> [data |-> mapsClone(maps, s.data).addr, observer |-> s.observer, runID |-> s.runID,
                checkpointNode |-> "", timestamp |-> 0]]

\* State.Clone: a State with a clone of the map and the receiver's
\* observer, runID, checkpointNode and timestamp
StateClone(maps, s) ==
    [maps  |-> mapsClone(maps, s.data).maps,
     state |-> [data |-> mapsClone(maps, s.data).addr, observer |-> s.observer, runID |-> s.runID,
                checkpointNode |-> s.checkpointNode, timestamp |-> s.timestamp]]

\* newState.data[key] = value
mapsPut(maps, a, key, value) ==
    [maps EXCEPT ![a] = [k \in DOMAIN @ \cup {key} |-> IF k = key THEN value ELSE @[k]]]

\* State.Set: newState := s.Clone(); newState.data[key] = value
StateSet(maps, s, key, value) ==
    LET c == StateClone(maps, s)
    IN  [maps |-> mapsPut(c.maps, c.state.data, key, value), state |-> c.state]

\* State.SetCheckpointNode: clone, then the node and time.Now()
StateSetCheckpointNode(maps, s, node, now) ==
    LET c == StateClone(maps, s)
    IN  [maps |-> c.maps, state |-> [c.state EXCEPT !.checkpointNode = node, !.timestamp = now]]

\* maps.Copy with the fault "keys already present are kept"
mapsCopy_KeepDst(maps, dst, src) ==
    [maps EXCEPT ![dst] = [k \in DOMAIN maps[dst] \cup DOMAIN maps[src] |->
                              IF k \in DOMAIN maps[dst] THEN maps[dst][k] ELSE maps[src][k]]]

\* maps.Copy(dst, src): every entry of src is written into dst
mapsCopy(maps, dst, src) ==
    [maps EXCEPT ![dst] = [k \in DOMAIN maps[dst] \cup DOMAIN maps[src] |->
                              IF k \in DOMAIN maps[src] THEN maps[src][k] ELSE maps[dst][k]]]

\* State.Merge: newState := s.Clone(); maps.Copy(newState.data, other.data)
StateMerge(maps, s, other) ==
    LET c == StateClone(maps, s)
    IN  [maps |-> mapsCopy(c.maps, c.state.data, other.data), state |-> c.state]

\* State.Get: val, exists := s.data[key]
StateGet(maps, s, key) == IF key \in DOMAIN maps[s.data] THEN <<maps[s.data][key], TRUE>> ELSE <<0, FALSE>>

NoStateOp == [op |-> "", recv |-> 0, other |-> 0, key |-> "", value |-> 0, node |-> "", now |-> 0]

\* what a State is worth to its holder: the entries of its map and its
\* fields
Content(maps, s) ==
    [data |-> maps[s.data], observer |-> s.observer, runID |-> s.runID,
     checkpointNode |-> s.checkpointNode, timestamp |-> s.timestamp]

\* The States a caller holds.  maps: the memory; states: the States
\* obtained so far, in order; snap (bookkeeping only): the content each of
\* them had when it was obtained; last: the last operation, its receiver
\* and argument (positions in states), whose result is the last State;
\* now: time.Now()
IdleHeap == [maps |-> <<>>, states |-> <<>>, snap |-> <<>>, last |-> NoStateOp, now |-> 0]

\* two States of different runs and observers, holding the maps d1 and d2,
\* the second one checkpointed once
HeapWith(d1, d2) ==
    LET s1 == [data |-> 1, observer |-> "o1", runID |-> "r1", checkpointNode |-> "", timestamp |-> 1]
        s2 == [data |-> 2, observer |-> "o2", runID |-> "r2", checkpointNode |-> "a", timestamp |-> 2]
    IN  [maps |-> <<d1, d2>>, states |-> <<s1, s2>>,
         snap |-> <<Content(<<d1, d2>>, s1), Content(<<d1, d2>>, s2)>>, last |-> NoStateOp, now |-> 3]

\* the caller keeps the State an operation returned
Obtain(h, out, op) ==
    [h EXCEPT !.maps = out.maps, !.states = Append(@, out.state),
              !.snap = Append(@, Content(out.maps, out.state)), !.last = op, !.now = @ + 1]

\* ------------------------------------------------- building a graph
\* names a caller passes to the construction methods: "" is the empty string
Names == Nodes \cup {""}

\* nodes a caller passes to AddNode: "nil" is the nil StateNode
NodeValues == NodeKinds \cup {"nil"}

\* NewGraph: no node, no edge, no entry point, no exit point
NewGraph ==
    [nodes |-> [n \in {} |-> "nil"], edges |-> [n \in Nodes |-> <<>>],
     entryPoint |-> "", exitPoints |-> {}]

\* each construction method returns the graph it leaves and its error

\* stateGraph.AddNode
AddNode(g, name, node) ==
    IF name = "" THEN [g |-> g, err |-> "node name cannot be empty"]
    ELSE IF node = "nil" THEN [g |-> g, err |-> "node cannot be nil"]
    ELSE IF name \in DOMAIN g.nodes THEN [g |-> g, err |-> "node already exists"]
    ELSE [g |-> [g EXCEPT !.nodes = [n \in DOMAIN g.nodes \cup {name} |->
                                        IF n = name THEN node ELSE g.nodes[n]]],
          err |-> ""]

\* AddEdge without the check of the target
AddEdge_NoToCheck(g, from, to, predicate) ==
    IF from = "" THEN [g |-> g, err |-> "from node cannot be empty"]
    ELSE IF to = "" THEN [g |-> g, err |-> "to node cannot be empty"]
    ELSE IF from \notin DOMAIN g.nodes THEN [g |-> g, err |-> "from node does not exist"]
    ELSE [g |-> [g EXCEPT !.edges[from] =
                    Append(@, [From |-> from, To |-> to, Predicate |-> predicate])],
          err |-> ""]

\* stateGraph.AddEdge
AddEdge(g, from, to, predicate) ==
    IF from = "" THEN [g |-> g, err |-> "from node cannot be empty"]
    ELSE IF to = "" THEN [g |-> g, err |-> "to node cannot be empty"]
    ELSE IF from \notin DOMAIN g.nodes THEN [g |-> g, err |-> "from node does not exist"]
    ELSE IF to \notin DOMAIN g.nodes THEN [g |-> g, err |-> "to node does not exist"]
    ELSE [g |-> [g EXCEPT !.edges[from] =
                    Append(@, [From |-> from, To |-> to, Predicate |-> predicate])],
          err |-> ""]

\* stateGraph.SetEntryPoint
SetEntryPoint(g, node) ==
    IF node = "" THEN [g |-> g, err |-> "entry point cannot be empty"]
    ELSE IF g.entryPoint # "" THEN [g |-> g, err |-> "entry point already set"]
    ELSE IF node \notin DOMAIN g.nodes THEN [g |-> g, err |-> "entry point node does not exist"]
    ELSE [g |-> [g EXCEPT !.entryPoint = node], err |-> ""]

\* stateGraph.SetExitPoint
SetExitPoint(g, node) ==
    IF node = "" THEN [g |-> g, err |-> "exit point cannot be empty"]
    ELSE IF node \notin DOMAIN g.nodes THEN [g |-> g, err |-> "exit points node does not exist"]
    ELSE [g |-> [g EXCEPT !.exitPoints = @ \cup {node}], err |-> ""]

\* a graph under construction: the graph, the number of calls made on it,
\* and the last call with the error it returned
IdleBuild == [g |-> NewGraph, calls |-> 0, op |-> "", err |-> ""]

\* the caller receives the error of the call; the graph is the one the
\* method left
Called(b, op, out) == [g |-> out.g, calls |-> b.calls + 1, op |-> op, err |-> out.err]

\* ------------------------------------------------------- sequential fold
\* items of a chain: a value, and whether the processor fails on the item
ChainItems == [v : 1..2, bad : BOOLEAN]

\* StepProcessor of the workload: adds the item to the accumulated state
StepProcessor(item, state) ==
    [state |-> state + item.v, err |-> IF item.bad THEN "boom" ELSE ""]

\* ProcessChain calls: cancelAt is the step at whose start the context is
\* found cancelled (no such step when cancelAt >= Len(items)); progress
\* tells whether the progress callback is non-nil
ChainCalls ==
    [items : SeqsUpTo(ChainItems, MaxItems), initial : 0..1, capture : BOOLEAN,
     progress : BOOLEAN, cancelAt : 0..MaxItems]

NoChainError == [stepIndex |-> 0, item |-> [v |-> 0, bad |-> FALSE], state |-> 0, cause |-> ""]

\* what ProcessChain holds before the first step.  calls lists the steps
\* handed to the processor, reported the `completed` arguments of the
\* progress callback.
ChainStart_NoInitial(c) ==
    [final |-> c.initial, intermediate |-> <<>>, steps |-> 0,
     err |-> NoChainError, calls |-> <<>>, reported |-> <<>>]

ChainStart(c) ==
    [final |-> c.initial, intermediate |-> IF c.capture THEN <<c.initial>> ELSE <<>>, steps |-> 0,
     err |-> NoChainError, calls |-> <<>>, reported |-> <<>>]

\* the chain error of step i, with progress invoked for the step all the same
ChainFail_Reported(r, i, item, cause) ==
    [r EXCEPT !.err = [stepIndex |-> i, item |-> item, state |-> r.final, cause |-> cause],
              !.reported = Append(@, i + 1)]

\* ChainError{StepIndex: i, Item: item, State: state, Err: cause}
ChainFail(r, i, item, cause) ==
    [r EXCEPT !.err = [stepIndex |-> i, item |-> item, state |-> r.final, cause |-> cause]]

\* the loop of ProcessChain from step i on (i counts from 0)
RECURSIVE ChainLoop(_, _, _)
ChainLoop(c, i, r) ==
    IF i >= Len(c.items) THEN [r EXCEPT !.steps = Len(c.items)]
    ELSE IF c.cancelAt = i THEN ChainFail(r, i, c.items[i + 1], "context canceled")
    ELSE LET out == StepProcessor(c.items[i + 1], r.final)
             ran == [r EXCEPT !.calls = Append(@, i)]
         IN IF out.err # "" THEN ChainFail(ran, i, c.items[i + 1], out.err)
            ELSE ChainLoop(c, i + 1,
                     [ran EXCEPT !.final = out.state,
                                 !.intermediate = IF c.capture THEN Append(@, out.state) ELSE @,
                                 !.reported = IF c.progress THEN Append(@, i + 1) ELSE @])

\* ProcessChain: an empty chain returns the initial state, no intermediate
\* states and zero steps
ProcessChain(c) ==
    IF c.items = <<>>
    THEN [final |-> c.initial, intermediate |-> <<>>, steps |-> 0,
          err |-> NoChainError, calls |-> <<>>, reported |-> <<>>]
    ELSE ChainLoop(c, 0, ChainStart(c))

\* ---------------------------------------------------- conditional router
RouteNames == {"x", "y"}

\* RoutePredicate of the workload: a constant route, a route chosen by the
\* state, or a failure
RoutePredicates == {"toX", "toY", "byState", "fail"}

RoutePredicate(kind, state) ==
    CASE kind = "toX" -> [route |-> "x", err |-> ""]
      [] kind = "toY" -> [route |-> "y", err |-> ""]
      [] kind = "byState" -> [route |-> IF state = 0 THEN "x" ELSE "y", err |-> ""]
      [] OTHER -> [route |-> "", err |-> "predicate failed"]

\* ProcessConditional calls: handlers maps the registered route names to
\* handlers, default is "none" for a nil Default; a handler is "ok" or
\* "bad" (it fails); cancel tells where the context is found cancelled
ConditionalCalls ==
    [state : 0..1, predicate : RoutePredicates,
     handlers : UNION {[H -> {"ok", "bad"}] : H \in SUBSET RouteNames},
     default : {"none", "ok", "bad"},
     cancel : {"never", "before predicate", "before handler"}]

\* RouteHandler of the workload
RouteHandler(kind, state) ==
    [state |-> state + 1, err |-> IF kind = "bad" THEN "handler failed" ELSE ""]

NoConditionalError == [route |-> "", state |-> 0, cause |-> ""]

\* the default handler is taken before the map is looked at
SelectHandler_DefaultFirst(c, name) ==
    IF c.default # "none" THEN [found |-> TRUE, who |-> "default", kind |-> c.default]
    ELSE IF name \in DOMAIN c.handlers THEN [found |-> TRUE, who |-> name, kind |-> c.handlers[name]]
    ELSE [found |-> FALSE, who |-> "", kind |-> ""]

\* handler, exists := routes.Handlers[name]; if absent, routes.Default
SelectHandler(c, name) ==
    IF name \in DOMAIN c.handlers THEN [found |-> TRUE, who |-> name, kind |-> c.handlers[name]]
    ELSE IF c.default # "none" THEN [found |-> TRUE, who |-> "default", kind |-> c.default]
    ELSE [found |-> FALSE, who |-> "", kind |-> ""]

\* ProcessConditional: the state and the error returned, the route the
\* predicate named, and the handlers invoked, in order
ProcessConditional(c) ==
    LET fail(route, cause, invoked) ==
            [state |-> c.state, err |-> [route |-> route, state |-> c.state, cause |-> cause],
             route |-> route, invoked |-> invoked]
        p == RoutePredicate(c.predicate, c.state)
        h == SelectHandler(c, p.route)
        out == RouteHandler(h.kind, c.state)
    IN IF c.cancel = "before predicate" THEN fail("", "context canceled", <<>>)
       ELSE IF p.err # "" THEN fail("", p.err, <<>>)
       ELSE IF ~h.found THEN fail(p.route, "no handler", <<>>)
       ELSE IF c.cancel = "before handler" THEN fail(p.route, "context canceled", <<>>)
       ELSE IF out.err # "" THEN fail(p.route, out.err, <<h.who>>)
       ELSE [state |-> out.state, err |-> NoConditionalError, route |-> p.route, invoked |-> <<h.who>>]

\* no workflow pattern has been called
IdleFlow == [pc |-> "idle"]

\* ------------------------------------------------------------ the system
VARIABLES graph, run, store, clock, ctx, ghost, reference, par, mstore, registry, heap, run2, build, flow

vars == <<graph, run, store, clock, ctx, ghost, reference, par, mstore, registry, heap, run2, build, flow>>

\* the variables of the graph engine
GraphVars == <<graph, run, store, clock, ctx, ghost, reference>>

\* the in-memory store under concurrent callers, the registries, the State
\* values of a caller, a second run of the graph, a graph under
\* construction, and a call of a workflow pattern
OtherVars == <<mstore, registry, heap, run2, build, flow>>

OtherInit ==
    /\ mstore = IdleStore
    /\ registry = IdleRegistry
    /\ heap = IdleHeap
    /\ run2 = IdleRun
    /\ build = IdleBuild
    /\ flow = IdleFlow

\* ghost: bookkeeping of the run across calls, read by no step of the code.
\*   hist    every node execution completed so far, in order, repeats included
\*   base    the node executions behind the State the current call started
\*           from (empty for Execute, those behind the checkpoint for Resume)
\*   saved   the node executions behind the State of the most recent Save
\*   prev    how the previous call ended: its kind, its end ("completed",
\*           "failed", "suspended"), the pc at which the process died,
\*           whether a Save succeeded during it, and the number of node
\*           executions behind its last State
\*   resumes number of Resume calls
\*   saveErr store.Save returned an error to the current call
\* reference: the result of the uninterrupted Execute of the same graph
Mach == [run |-> run, store |-> store, clock |-> clock, ctx |-> ctx]

Commit(m) == run' = m.run /\ store' = m.store /\ clock' = m.clock /\ ctx' = m.ctx

HasEvent(r, type) == \E i \in 1..Len(r.events) : r.events[i].type = type

NoPrev == [kind |-> "none", end |-> "", cut |-> "", saved |-> FALSE, done |-> 0]

\* the node executions behind the State of the current call
Completed == ghost.base \o (IF run.pc = "node" THEN SubSeq(run.path, 1, Len(run.path) - 1) ELSE run.path)

Init ==
    /\ graph \in Graphs
    /\ run = IdleRun
    /\ store = EmptyStore
    /\ clock = 1
    /\ ctx = "live"
    /\ ghost = [hist |-> <<>>, base |-> <<>>, saved |-> <<>>, prev |-> NoPrev, resumes |-> 0, saveErr |-> FALSE]
    /\ reference = Uninterrupted(graph)
    /\ par = IdlePar
    /\ OtherInit

\* graph.Execute(ctx, initialState) is called
DoExecute ==
    /\ run.pc = "idle"
    /\ Commit(ExecuteCall(graph, Mach, InitialState))
    /\ UNCHANGED <<OtherVars, par, graph, ghost, reference>>

DoLoopTop ==
    /\ run.pc = "top"
    /\ run.iterations <= MaxIter
    /\ Commit(LoopTop(graph, Mach))
    /\ UNCHANGED <<OtherVars, par, graph, ghost, reference>>

DoRunNode ==
    /\ run.pc = "node"
    /\ Commit(RunNode(graph, Mach))
    /\ ghost' = IF run'.pc = "save" THEN [ghost EXCEPT !.hist = Append(@, run.current)] ELSE ghost
    /\ UNCHANGED <<OtherVars, par, graph, reference>>

DoSaveCheckpoint ==
    /\ run.pc = "save"
    /\ Commit(SaveCheckpoint(graph, Mach))
    /\ ghost' = IF Len(run'.events) > Len(run.events) THEN [ghost EXCEPT !.saved = ghost.base \o run.path] ELSE ghost
    /\ UNCHANGED <<OtherVars, par, graph, reference>>

DoExitCheck ==
    /\ run.pc = "exit"
    /\ Commit(ExitCheck(graph, Mach))
    /\ UNCHANGED <<OtherVars, par, graph, ghost, reference>>

DoEvaluateEdges ==
    /\ run.pc = "edges"
    /\ Commit(Step(graph, Mach))
    /\ UNCHANGED <<OtherVars, par, graph, ghost, reference>>

\* The process dies (exit, panic, kill): the locals of the call are gone,
\* the store keeps what was saved
Crash ==
    /\ run.pc \in Active
    /\ run' = [IdleRun EXCEPT !.pc = "suspended"]
    /\ ghost' = [ghost EXCEPT !.prev = [kind |-> run.kind, end |-> "suspended", cut |-> run.pc,
                                         saved |-> HasEvent(run, "CheckpointSave"),
                                         done |-> Len(Completed)]]
    /\ UNCHANGED <<OtherVars, par, graph, store, clock, ctx, reference>>

\* graph.Resume(ctx, runID) is called on a run that is not active
DoResume ==
    /\ run.pc \in Returned \cup {"suspended"}
    /\ ghost.resumes < MaxResumes
    /\ Commit(Resume(graph, Mach, RunID))
    /\ ghost' = [ghost EXCEPT !.prev = IF run.pc \in Returned
                                       THEN [kind |-> run.kind, end |-> run.pc, cut |-> "",
                                             saved |-> HasEvent(run, "CheckpointSave"),
                                             done |-> Len(ghost.base) + Len(run.path)]
                                       ELSE @,
                              !.resumes = @ + 1,
                              !.base = IF RunID \in DOMAIN store THEN ghost.saved ELSE <<>>]
    /\ UNCHANGED <<OtherVars, par, graph, reference>>

Next ==
    \/ DoExecute
    \/ DoLoopTop
    \/ DoRunNode
    \/ DoSaveCheckpoint
    \/ DoExitCheck
    \/ DoEvaluateEdges
    \/ Crash
    \/ DoResume

Spec == Init /\ [][Next]_vars

\* The scheduler keeps running a call that can take a step; nothing kills
\* the process and nobody calls Resume
LiveNext ==
    \/ DoExecute
    \/ DoLoopTop
    \/ DoRunNode
    \/ DoSaveCheckpoint
    \/ DoExitCheck
    \/ DoEvaluateEdges

LiveSpec == Init /\ [][LiveNext]_vars /\ WF_vars(LiveNext)

\* Execute on a checkpointing graph one of whose nodes returns a State it
\* made itself
FreshInit ==
    /\ graph \in {[g EXCEPT !.nodes = kinds] :
                    g \in {h \in Graphs : h.checkpointInterval > 0},
                    kinds \in {k \in [Nodes -> NodeKinds \cup {"fresh"}] : \E n \in Nodes : k[n] = "fresh"}}
    /\ run = IdleRun
    /\ store = EmptyStore
    /\ clock = 1
    /\ ctx = "live"
    /\ ghost = [hist |-> <<>>, base |-> <<>>, saved |-> <<>>, prev |-> NoPrev, resumes |-> 0, saveErr |-> FALSE]
    /\ reference = IdleRun
    /\ par = IdlePar
    /\ OtherInit

FreshSpec == FreshInit /\ [][LiveNext]_vars

\* The caller (or a deadline) cancels the context handed to Execute
Cancel ==
    /\ run.pc \in Active \cup {"idle"}
    /\ ctx = "live"
    /\ ctx' = "cancelled"
    /\ UNCHANGED <<OtherVars, par, graph, run, store, clock, ghost, reference>>

\* The checkpoint save of the iteration is due and store.Save fails
DoSaveFailed ==
    /\ run.pc = "save"
    /\ CheckpointDue(graph, run.iterations)
    /\ Commit(SaveFailed(graph, Mach))
    /\ ghost' = [ghost EXCEPT !.saveErr = TRUE]
    /\ UNCHANGED <<OtherVars, par, graph, reference>>

\* Execute on a context that may be cancelled and a store that may fail
FaultNext ==
    \/ DoExecute
    \/ DoLoopTop
    \/ DoRunNode
    \/ DoSaveCheckpoint
    \/ DoExitCheck
    \/ DoEvaluateEdges
    \/ Cancel
    \/ DoSaveFailed

FaultSpec == Init /\ [][FaultNext]_vars

\* ---------------------------------------------- bounded parallel, system
\* The inputs: up to MaxItems different items (the item at index i of n is
\* item n - i), any of them bad
ItemLists ==
    {[i \in 1..n |-> [id |-> n + 1 - i, bad |-> i \in F]] : <<n, F>> \in
        UNION {{<<k, B>> : B \in SUBSET (1..k)} : k \in 0..MaxItems}}

ParInit ==
    /\ graph = [nodes |-> <<>>]
    /\ run = IdleRun
    /\ store = EmptyStore
    /\ clock = 1
    /\ ctx = "live"
    /\ ghost = [hist |-> <<>>, base |-> <<>>, saved |-> <<>>, prev |-> NoPrev, resumes |-> 0, saveErr |-> FALSE]
    /\ reference = IdleRun
    /\ OtherInit
    /\ par \in {[IdlePar EXCEPT !.cfg = c, !.items = its] : c \in ParallelConfigs, its \in ItemLists}

\* ProcessParallel(ctx, cfg, items, processor, progress) is called
DoProcessParallel ==
    /\ par.pc = "idle"
    /\ par' = ProcessParallel(par)
    /\ UNCHANGED <<GraphVars, OtherVars>>

DoWorkerTake(j) ==
    /\ par.w[j].pc = "idle"
    /\ par' = WorkerTake(par, j)
    /\ UNCHANGED <<GraphVars, OtherVars>>

DoWorkerProcess(j) ==
    /\ par.w[j].pc = "proc"
    /\ par' = WorkerProcess(par, j)
    /\ UNCHANGED <<GraphVars, OtherVars>>

\* the send blocks while the channel is full
DoWorkerSend(j) ==
    /\ par.w[j].pc = "send"
    /\ Len(par.ch) < ResultCap(Len(par.items))
    /\ par' = WorkerSend(par, j)
    /\ UNCHANGED <<GraphVars, OtherVars>>

DoCollectorReceive ==
    /\ par.collector = "running"
    /\ par.ch # <<>>
    /\ par' = CollectorReceive(par)
    /\ UNCHANGED <<GraphVars, OtherVars>>

DoCollectorDone ==
    /\ par.collector = "running"
    /\ par.ch = <<>>
    /\ par.closed
    /\ par' = CollectorDone(par)
    /\ UNCHANGED <<GraphVars, OtherVars>>

\* wg.Wait(): every worker has returned
DoCloseResults ==
    /\ par.pc = "waiting"
    /\ WorkersDone(par)
    /\ par' = CloseResults(par)
    /\ UNCHANGED <<GraphVars, OtherVars>>

\* <-done: the collector has finished
DoFinish ==
    /\ par.pc = "draining"
    /\ par.collector = "done"
    /\ par' = Finish(par)
    /\ UNCHANGED <<GraphVars, OtherVars>>

ParNext ==
    \/ DoProcessParallel
    \/ \E j \in 1..par.workers : DoWorkerTake(j)
    \/ \E j \in 1..par.workers : DoWorkerProcess(j)
    \/ \E j \in 1..par.workers : DoWorkerSend(j)
    \/ DoCollectorReceive
    \/ DoCollectorDone
    \/ DoCloseResults
    \/ DoFinish

\* Every goroutine that can take a step eventually takes it: processors
\* return, the Go scheduler starves nobody
ParSpec == ParInit /\ [][ParNext]_vars /\ WF_vars(ParNext)

\* The same invocations with a recording observer and a progress callback
ObsInit ==
    /\ graph = [nodes |-> <<>>]
    /\ run = IdleRun
    /\ store = EmptyStore
    /\ clock = 1
    /\ ctx = "live"
    /\ ghost = [hist |-> <<>>, base |-> <<>>, saved |-> <<>>, prev |-> NoPrev, resumes |-> 0, saveErr |-> FALSE]
    /\ reference = IdleRun
    /\ OtherInit
    /\ par \in {[IdlePar EXCEPT !.cfg = c, !.items = its, !.observer = TRUE, !.progress = TRUE] :
                   c \in ParallelConfigs, its \in ItemLists}

ObsSpec == ObsInit /\ [][ParNext]_vars

\* ------------------------------------------- two runs of the same graph
\* the initial State of the second Execute: another state.New, hence
\* another runID
InitialState2 == [New(0) EXCEPT !.runID = "r2"]

\* the second call: its own locals, the same store and clock
Mach2 == [run |-> run2, store |-> store, clock |-> clock, ctx |-> "live"]

Commit2(m) == run2' = m.run /\ store' = m.store /\ clock' = m.clock

\* graph.Execute(ctx, initialState2) is called by another goroutine
DoExecute2 ==
    /\ run2.pc = "idle"
    /\ Commit2(ExecuteCall(graph, Mach2, InitialState2))
    /\ UNCHANGED <<par, graph, run, ctx, ghost, reference, mstore, registry, heap, build, flow>>

\* the call runs on until it is about to use the store (the checkpoint
\* save, the exit check with its cleanup) or has returned
RECURSIVE RunToStore(_, _, _)
RunToStore(g, m, fuel) ==
    IF m.run.pc \in {"top", "node", "edges"} /\ fuel > 0 THEN RunToStore(g, Step(g, m), fuel - 1) ELSE m

\* the first call takes its next step on the store and runs on to the one
\* after it
DoStep1 ==
    /\ run.pc \in Active
    /\ Commit(RunToStore(graph, Step(graph, Mach), 3))
    /\ UNCHANGED <<OtherVars, par, graph, ghost, reference>>

\* the second call does the same
DoStep2 ==
    /\ run2.pc \in Active
    /\ Commit2(RunToStore(graph, Step(graph, Mach2), 3))
    /\ UNCHANGED <<par, graph, run, ctx, ghost, reference, mstore, registry, heap, build, flow>>

\* Between two uses of the store a call works on its own locals only, so
\* its steps are taken together; the uses of the store by the two calls
\* come in every order
ConcNext ==
    \/ DoExecute
    \/ DoStep1
    \/ DoExecute2
    \/ DoStep2

\* the graphs that save a checkpoint after every node: the two calls use
\* the store at every iteration
ConcInit ==
    /\ graph \in {g \in Graphs : g.checkpointInterval = 1}
    /\ run = IdleRun
    /\ store = EmptyStore
    /\ clock = 1
    /\ ctx = "live"
    /\ ghost = [hist |-> <<>>, base |-> <<>>, saved |-> <<>>, prev |-> NoPrev, resumes |-> 0, saveErr |-> FALSE]
    /\ reference = Uninterrupted(graph)
    /\ par = IdlePar
    /\ OtherInit

ConcSpec == ConcInit /\ [][ConcNext]_vars

\* --------------------------------------------- in-memory store, system
StoreInit ==
    /\ graph = [nodes |-> <<>>]
    /\ run = IdleRun
    /\ store = EmptyStore
    /\ clock = 1
    /\ ctx = "live"
    /\ ghost = [hist |-> <<>>, base |-> <<>>, saved |-> <<>>, prev |-> NoPrev, resumes |-> 0, saveErr |-> FALSE]
    /\ reference = IdleRun
    /\ par = IdlePar
    /\ OtherInit

DoStoreCall(t) ==
    /\ mstore.th[t].pc = "idle"
    /\ mstore.calls < MaxCalls
    /\ \E c \in StoreCalls : mstore' = StoreCall(mstore, t, c)
    /\ UNCHANGED <<GraphVars, par, registry, heap, run2, build, flow>>

DoStoreLock(t) ==
    /\ mstore.th[t].pc = "lock"
    /\ IF Writes(mstore.th[t].call) THEN CanLock(mstore.mu) ELSE CanRLock(mstore.mu)
    /\ mstore' = StoreLock(mstore, t)
    /\ UNCHANGED <<GraphVars, par, registry, heap, run2, build, flow>>

DoStoreBody(t) ==
    /\ mstore.th[t].pc \in {"body", "body2"}
    /\ mstore' = StoreBody(mstore, t)
    /\ UNCHANGED <<GraphVars, par, registry, heap, run2, build, flow>>

DoStoreUnlock(t) ==
    /\ mstore.th[t].pc = "unlock"
    /\ mstore' = StoreUnlock(mstore, t)
    /\ UNCHANGED <<GraphVars, par, registry, heap, run2, build, flow>>

StoreNext ==
    \/ \E t \in Callers : DoStoreCall(t)
    \/ \E t \in Callers : DoStoreLock(t)
    \/ \E t \in Callers : DoStoreBody(t)
    \/ \E t \in Callers : DoStoreUnlock(t)

StoreSpec == StoreInit /\ [][StoreNext]_vars

\* ------------------------------------------------- registries, system
DoRegistryCall(t) ==
    /\ registry.th[t].pc = "idle"
    /\ registry.calls < MaxCalls
    /\ \E c \in RegistryCalls : registry' = RegistryCall(registry, t, c)
    /\ UNCHANGED <<GraphVars, par, mstore, heap, run2, build, flow>>

DoRegistryGet(t) ==
    /\ registry.th[t].pc = "body"
    /\ registry.th[t].call.fn = "Get"
    /\ \E out \in GetOutcomes(registry, t) : registry' = RegistryGet(registry, t, out)
    /\ UNCHANGED <<GraphVars, par, mstore, heap, run2, build, flow>>

DoRegistryRegister(t) ==
    /\ registry.th[t].pc \in {"body", "body2"}
    /\ registry.th[t].call.fn = "Register"
    /\ registry' = RegistryRegister(registry, t)
    /\ UNCHANGED <<GraphVars, par, mstore, heap, run2, build, flow>>

DoRegistryReturn(t) ==
    /\ registry.th[t].pc = "ret"
    /\ registry' = RegistryReturn(registry, t)
    /\ UNCHANGED <<GraphVars, par, mstore, heap, run2, build, flow>>

RegistryNext ==
    \/ \E t \in Callers : DoRegistryCall(t)
    \/ \E t \in Callers : DoRegistryGet(t)
    \/ \E t \in Callers : DoRegistryRegister(t)
    \/ \E t \in Callers : DoRegistryReturn(t)

\* the Init of the store specification: every component idle
RegistrySpec == StoreInit /\ [][RegistryNext]_vars

\* ------------------------------------------------- State values, system
StateInit ==
    /\ graph = [nodes |-> <<>>]
    /\ run = IdleRun
    /\ store = EmptyStore
    /\ clock = 1
    /\ ctx = "live"
    /\ ghost = [hist |-> <<>>, base |-> <<>>, saved |-> <<>>, prev |-> NoPrev, resumes |-> 0, saveErr |-> FALSE]
    /\ reference = IdleRun
    /\ par = IdlePar
    /\ mstore = IdleStore
    /\ registry = IdleRegistry
    /\ run2 = IdleRun
    /\ build = IdleBuild
    /\ flow = IdleFlow
    /\ heap \in {HeapWith(d1, d2) : d1, d2 \in DataMaps}

DoClone ==
    /\ Len(heap.states) - 2 < MaxStateOps
    /\ \E i \in 1..Len(heap.states) :
          heap' = Obtain(heap, StateClone(heap.maps, heap.states[i]), [NoStateOp EXCEPT !.op = "Clone", !.recv = i])
    /\ UNCHANGED <<GraphVars, par, mstore, registry, run2, build, flow>>

DoSet ==
    /\ Len(heap.states) - 2 < MaxStateOps
    /\ \E i \in 1..Len(heap.states), k \in Keys, v \in Values :
          heap' = Obtain(heap, StateSet(heap.maps, heap.states[i], k, v),
                         [NoStateOp EXCEPT !.op = "Set", !.recv = i, !.key = k, !.value = v])
    /\ UNCHANGED <<GraphVars, par, mstore, registry, run2, build, flow>>

DoSetCheckpointNode ==
    /\ Len(heap.states) - 2 < MaxStateOps
    /\ \E i \in 1..Len(heap.states), n \in Nodes :
          heap' = Obtain(heap, StateSetCheckpointNode(heap.maps, heap.states[i], n, heap.now),
                         [NoStateOp EXCEPT !.op = "SetCheckpointNode", !.recv = i, !.node = n, !.now = heap.now])
    /\ UNCHANGED <<GraphVars, par, mstore, registry, run2, build, flow>>

DoMerge ==
    /\ Len(heap.states) - 2 < MaxStateOps
    /\ \E i, j \in 1..Len(heap.states) :
          heap' = Obtain(heap, StateMerge(heap.maps, heap.states[i], heap.states[j]),
                         [NoStateOp EXCEPT !.op = "Merge", !.recv = i, !.other = j])
    /\ UNCHANGED <<GraphVars, par, mstore, registry, run2, build, flow>>

StateNext == DoClone \/ DoSet \/ DoSetCheckpointNode \/ DoMerge

StateSpec == StateInit /\ [][StateNext]_vars

\* ------------------------------------------- building a graph, system
\* A caller builds a graph call by call, with any arguments, and may ask
\* for its validation at any time.
DoAddNode ==
    /\ build.calls < MaxBuild
    /\ \E name \in Names, node \in NodeValues :
          build' = Called(build, "AddNode", AddNode(build.g, name, node))
    /\ UNCHANGED <<GraphVars, par, mstore, registry, heap, run2, flow>>

DoAddEdge ==
    /\ build.calls < MaxBuild
    /\ \E from \in Names, to \in Names, predicate \in Preds :
          build' = Called(build, "AddEdge", AddEdge(build.g, from, to, predicate))
    /\ UNCHANGED <<GraphVars, par, mstore, registry, heap, run2, flow>>

DoSetEntryPoint ==
    /\ build.calls < MaxBuild
    /\ \E node \in Names :
          build' = Called(build, "SetEntryPoint", SetEntryPoint(build.g, node))
    /\ UNCHANGED <<GraphVars, par, mstore, registry, heap, run2, flow>>

DoSetExitPoint ==
    /\ build.calls < MaxBuild
    /\ \E node \in Names :
          build' = Called(build, "SetExitPoint", SetExitPoint(build.g, node))
    /\ UNCHANGED <<GraphVars, par, mstore, registry, heap, run2, flow>>

DoValidate ==
    /\ build.calls < MaxBuild
    /\ build' = Called(build, "Validate", [g |-> build.g, err |-> Validate(build.g)])
    /\ UNCHANGED <<GraphVars, par, mstore, registry, heap, run2, flow>>

BuildNext ==
    \/ DoAddNode
    \/ DoAddEdge
    \/ DoSetEntryPoint
    \/ DoSetExitPoint
    \/ DoValidate

BuildSpec == StoreInit /\ [][BuildNext]_vars

\* -------------------------------------------- workflow patterns, system
\* One call of ProcessChain or of ProcessConditional, with any arguments.
FlowInit ==
    /\ graph = [nodes |-> <<>>]
    /\ run = IdleRun
    /\ store = EmptyStore
    /\ clock = 1
    /\ ctx = "live"
    /\ ghost = [hist |-> <<>>, base |-> <<>>, saved |-> <<>>, prev |-> NoPrev, resumes |-> 0, saveErr |-> FALSE]
    /\ reference = IdleRun
    /\ par = IdlePar
    /\ mstore = IdleStore
    /\ registry = IdleRegistry
    /\ heap = IdleHeap
    /\ run2 = IdleRun
    /\ build = IdleBuild
    /\ \/ flow \in [pc : {"chain"}, call : ChainCalls]
       \/ flow \in [pc : {"conditional"}, call : ConditionalCalls]

DoProcessChain ==
    /\ flow.pc = "chain"
    /\ flow' = [pc |-> "chain returned", call |-> flow.call, out |-> ProcessChain(flow.call)]
    /\ UNCHANGED <<GraphVars, par, mstore, registry, heap, run2, build>>

DoProcessConditional ==
    /\ flow.pc = "conditional"
    /\ flow' = [pc |-> "conditional returned", call |-> flow.call, out |-> ProcessConditional(flow.call)]
    /\ UNCHANGED <<GraphVars, par, mstore, registry, heap, run2, build>>

FlowNext ==
    \/ DoProcessChain
    \/ DoProcessConditional

FlowSpec == FlowInit /\ [][FlowNext]_vars

\* ------------------------------------------------------------ properties
IsPrefix(p, q) == Len(p) <= Len(q) /\ \A i \in 1..Len(p) : p[i] = q[i]

\* one of the two paths continues the other
Comparable(p, q) == IsPrefix(p, q) \/ IsPrefix(q, p)

\* The current call is a Resume that loaded a checkpoint after the process
\* had died during the previous call
ResumedAfterCrash == run.kind = "resume" /\ ghost.prev.end = "suspended" /\ HasEvent(run, "CheckpointLoad")

\* ... and the call the process died in was the Execute itself
ExecuteInterrupted == ResumedAfterCrash /\ ghost.prev.kind = "execute"

\* checkpointNode of the checkpoint the current Resume loaded
LoadedNode == run.events[1].node

\* C1 (as claimed): for a deterministic workload, a run interrupted after a
\* checkpoint was saved and continued with Resume(runID) ends with the same
\* final State data as the uninterrupted Execute(graph, s0).
C1_AsClaimed ==
    (ExecuteInterrupted /\ run.pc \in Returned) => run.state.data = reference.state.data

\* C1 (amended): the final data, and the outcome, are those of the
\* uninterrupted Execute when the loaded checkpoint is of a node that is not
\* an exit point and has a valid transition on the checkpointed State, and
\* the uninterrupted Execute does not end at the iteration cap.
C1_ResumeEquivalence ==
    (/\ ExecuteInterrupted
     /\ run.pc \in Returned
     /\ HasEvent(run, "CheckpointResume")
     /\ LoadedNode \notin graph.exitPoints
     /\ reference.err # "max iterations exceeded")
    => (run.state.data = reference.state.data /\ run.pc = reference.pc)

\* C1 witness: a resumed run completed at an exit point after executing nodes
\* past the checkpoint, on a graph whose uninterrupted run also completes
C1_Witness ==
    /\ ExecuteInterrupted
    /\ run.pc = "completed"
    /\ Len(run.path) >= 1
    /\ LoadedNode \notin graph.exitPoints
    /\ reference.pc = "completed"
    /\ Len(reference.path) = MaxIter

\* C2 (as claimed): when a run is suspended after a node has completed (and
\* the checkpoint step of that iteration is over) and continued with Resume,
\* no node execution that completed before the suspension is performed
\* again: the first node the Resume runs lies past all of them.
C2_AsClaimed ==
    (ResumedAfterCrash /\ ghost.prev.cut # "save" /\ Len(run.path) >= 1)
    => Len(ghost.base) >= ghost.prev.done

\* C2 (amended): Resume performs no node execution again that completed up
\* to the Save of the checkpoint it loads: what it runs continues the
\* uninterrupted path right after the checkpointed execution.  (Executions
\* completed after that Save are performed again.)
C2_NoReexecutionUpToCheckpoint ==
    ResumedAfterCrash => Comparable(ghost.base \o run.path, reference.path)

\* C2 witness: a Resume after a crash is running nodes, the checkpoint covers
\* some executions and others completed after it was saved
C2_Witness ==
    /\ ResumedAfterCrash
    /\ Len(run.path) >= 2
    /\ Len(ghost.base) >= 1
    /\ ghost.prev.done > Len(ghost.base)
    /\ ghost.base \o run.path = reference.path

\* C3 (as claimed): Resume fails without executing a node whenever the
\* loaded checkpoint is of an exit point, outgoing edges or not.
C3_AsClaimed ==
    (run.kind = "resume" /\ HasEvent(run, "CheckpointLoad") /\ LoadedNode \in graph.exitPoints)
    => (run.pc = "failed" /\ run.path = <<>>)

\* index of the first edge of the list whose predicate is nil or true on s,
\* 0 when there is none
FirstValid(edges, s) ==
    IF \E i \in 1..Len(edges) : PredicateHolds(edges[i].Predicate, s)
    THEN CHOOSE i \in 1..Len(edges) :
            /\ PredicateHolds(edges[i].Predicate, s)
            /\ \A j \in 1..(i - 1) : ~PredicateHolds(edges[j].Predicate, s)
    ELSE 0

NodeStarts(r) == {i \in 1..Len(r.events) : r.events[i].type = "NodeStart"}

\* C5: a call never executes more than maxIterations nodes, revisits
\* included; the attempt to start one more fails with the iteration cap
\* error and the node is not run.
C5_IterationCap ==
    /\ Cardinality(NodeStarts(run)) <= graph.maxIterations
    /\ Len(run.path) <= graph.maxIterations
    /\ run.iterations > graph.maxIterations
          => /\ run.pc = "failed"
             /\ run.err = "max iterations exceeded"
             /\ Cardinality(NodeStarts(run)) = graph.maxIterations
             /\ ~\E i \in 1..Len(run.events) : run.events[i].iter = run.iterations

\* C5 witness: an Execute on a cycle stopped by the cap after maxIterations
\* node executions
C5_Witness ==
    /\ run.kind = "execute"
    /\ run.pc = "failed"
    /\ run.err = "max iterations exceeded"
    /\ Len(run.path) = graph.maxIterations
    /\ \E n \in Nodes : run.visited[n] >= 2

\* C6: every Execute leaves Running and ends Completed or Failed, cycles
\* whose exit predicate never becomes true included.
C6_Termination == (run.pc \in Active) ~> (run.pc \in Returned)

\* C6 witness: an Execute that kept going round a cycle without ever
\* reaching one of the exit points has ended
C6_Witness ==
    /\ run.kind = "execute"
    /\ run.pc = "failed"
    /\ graph.exitPoints # {}
    /\ \A x \in graph.exitPoints : run.visited[x] = 0
    /\ \E n \in Nodes : run.visited[n] = graph.maxIterations

\* C7: after a non-exit node completes, the next node is the target of the
\* lowest-index outgoing edge whose predicate is nil or true on the State
\* that node produced; the call fails when there is none.  In Execute the
\* edges before it, and no edge after it, are evaluated.
C7_FirstEdgeWins ==
    [][(run.pc = "edges" /\ run'.pc # "suspended")
          => LET edges == graph.edges[run.current]
                 k == FirstValid(edges, run.state)
             IN  IF k = 0
                 THEN run'.pc = "failed"
                 ELSE /\ run'.pc = "top"
                      /\ run'.current = edges[k].To
                      /\ run'.state = run.state
                      /\ run'.events[Len(run'.events)].type = "EdgeTransition"
                      /\ run'.events[Len(run'.events)].to = edges[k].To
                      /\ run.kind = "execute" => Len(run'.events) = Len(run.events) + k + 1]_vars

\* C7 witness: two edges to different nodes both hold on the State the last
\* node produced, and the call is about to run the target of the first
C7_Witness ==
    /\ run.kind = "execute"
    /\ run.pc = "top"
    /\ run.iterations >= 1
    /\ LET edges == graph.edges[run.path[Len(run.path)]]
       IN  /\ Len(edges) = 2
           /\ PredicateHolds(edges[1].Predicate, run.state)
           /\ PredicateHolds(edges[2].Predicate, run.state)
           /\ edges[1].To # edges[2].To
           /\ run.current = edges[1].To

\* the checkpoint decision of iteration i of the current call has been taken
Settled(i) == i < run.iterations \/ run.pc \notin {"node", "save"}

EventAt(r, type, i) == \E j \in 1..Len(r.events) : r.events[j].type = type /\ r.events[j].iter = i

NodeSucceeded(r, i) ==
    \E j \in 1..Len(r.events) : r.events[j].type = "NodeComplete" /\ r.events[j].iter = i /\ ~r.events[j].flag

\* C8: the State is saved in iteration i exactly when the interval is
\* positive, the node of iteration i returned without error and i is a
\* multiple of the interval; what the store holds is the State of the last
\* such iteration; with interval 0 the store is never written.
C8_SaveAtInterval ==
    /\ \A i \in 1..run.iterations :
          Settled(i) =>
             (EventAt(run, "CheckpointSave", i)
                <=> (/\ graph.checkpointInterval > 0
                     /\ NodeSucceeded(run, i)
                     /\ i % graph.checkpointInterval = 0))
    /\ (run.pc \in Active /\ HasEvent(run, "CheckpointSave"))
          => /\ RunID \in DOMAIN store
             /\ \E i \in 1..run.iterations :
                   /\ EventAt(run, "CheckpointSave", i)
                   /\ store[RunID].checkpointNode = run.path[i]
                   /\ \A j \in (i + 1)..run.iterations : ~EventAt(run, "CheckpointSave", j)
    /\ graph.checkpointInterval = 0 => store = EmptyStore

\* C8 witness: with interval 2 a call has run three nodes and saved after
\* the second only
C8_Witness ==
    /\ graph.checkpointInterval = 2
    /\ run.pc = "exit"
    /\ run.iterations = 3
    /\ EventAt(run, "CheckpointSave", 2)
    /\ ~EventAt(run, "CheckpointSave", 1)
    /\ ~EventAt(run, "CheckpointSave", 3)

\* C9: when Execute returns success with checkpointing enabled, the store
\* holds a checkpoint for the runID of the returned State exactly when
\* preserve is true and a save happened during the run.
C9_CleanupOnSuccess ==
    (run.kind = "execute" /\ run.pc = "completed" /\ graph.checkpointInterval > 0)
    => ((run.state.runID \in DOMAIN store)
          <=> (graph.preserveCheckpoints /\ HasEvent(run, "CheckpointSave")))

\* C9 witness: a successful Execute that saved a checkpoint and, preserve
\* being false, left none in the store
C9_Witness ==
    /\ run.kind = "execute"
    /\ run.pc = "completed"
    /\ ~graph.preserveCheckpoints
    /\ HasEvent(run, "CheckpointSave")
    /\ run.state.runID \notin DOMAIN store

\* C10: when Execute returns a failure after a save succeeded in that run,
\* the store holds a checkpoint under the runID of the returned State, and
\* a Resume(runID) called next loads it.
C10_CheckpointSurvivesFailure ==
    /\ (run.kind = "execute" /\ run.pc = "failed" /\ HasEvent(run, "CheckpointSave"))
          => run.state.runID \in DOMAIN store
    /\ (run.kind = "resume" /\ ghost.prev.kind = "execute" /\ ghost.prev.end = "failed" /\ ghost.prev.saved)
          => HasEvent(run, "CheckpointLoad")

\* C10 witness: an Execute failed on a node error after a save, and the
\* Resume called next has loaded the checkpoint and run that node again
C10_Witness ==
    /\ run.kind = "resume"
    /\ ghost.prev.kind = "execute"
    /\ ghost.prev.end = "failed"
    /\ ghost.prev.saved
    /\ HasEvent(run, "CheckpointLoad")
    /\ run.err = "node execution failed"

\* C11: when store.Save returns an error the call stops at once with a
\* failure: no CheckpointSave event for that iteration, no edge evaluated,
\* no further node executed, the store left as it was.
C11_SaveFailureIsFatal ==
    ghost.saveErr
    => /\ run.pc = "failed"
       /\ run.err = "checkpoint save failed"
       /\ run.events[Len(run.events)] = Ev("NodeComplete", run.current, run.iterations, "", FALSE)
       /\ ~EventAt(run, "CheckpointSave", run.iterations)
       /\ ~EventAt(run, "EdgeEvaluate", run.iterations)
       /\ Len(run.path) = run.iterations
       /\ RunID \in DOMAIN store => store[RunID].timestamp < run.state.timestamp

\* C11 witness: the second save of a run failed, the checkpoint of the first
\* is still in the store
C11_Witness ==
    /\ ghost.saveErr
    /\ run.pc = "failed"
    /\ run.iterations >= 2
    /\ RunID \in DOMAIN store
    /\ EventAt(run, "CheckpointSave", 1)

\* C12: when a node returns an error the call fails with an ExecutionError
\* that names that node, whose path ends with that node, and whose State
\* (also the State returned) is the State passed into the node, not the
\* State the node returned.
C12_NodeErrorKeepsInput ==
    [][(run.pc = "node" /\ run'.pc = "failed")
          => /\ run'.err = "node execution failed"
             /\ run'.current = run.current
             /\ run'.path = run.path
             /\ run'.path[Len(run'.path)] = run.current
             /\ run'.state = run.state
             /\ run'.state # NodeExecute(graph.nodes[run.current], run.state).state]_vars

\* C12 witness: an Execute failed in its third node, and the State returned
\* is the one the second node produced
C12_Witness ==
    /\ run.kind = "execute"
    /\ run.pc = "failed"
    /\ run.err = "node execution failed"
    /\ Len(run.path) = 3
    /\ run.state.checkpointNode = run.path[2]
    /\ Counter(run.state) = 2

\* the graph events of a call other than CycleDetected, in emission order
Trace(r) == SelectSeq(r.events, LAMBDA e : e.type # "CycleDetected")

\* event f may come right after event e
Follows(e, f) ==
    CASE e.type = "GraphStart"       -> f.type = "NodeStart" /\ f.iter = 1 /\ f.node = e.node
      [] e.type = "CheckpointLoad"   -> f.type = "CheckpointResume"
      [] e.type = "CheckpointResume" -> f.type = "NodeStart" /\ f.iter = 1 /\ f.node = e.to
      [] e.type = "NodeStart"        -> f.type = "NodeComplete" /\ f.node = e.node /\ f.iter = e.iter
      [] e.type = "NodeComplete"     -> /\ ~e.flag
                                        /\ f.type \in {"CheckpointSave", "GraphComplete", "EdgeEvaluate"}
                                        /\ f.node = e.node /\ f.iter = e.iter
      [] e.type = "CheckpointSave"   -> /\ f.type \in {"GraphComplete", "EdgeEvaluate"}
                                        /\ f.node = e.node /\ f.iter = e.iter
      [] e.type = "EdgeEvaluate"     -> /\ f.type \in {"EdgeEvaluate", "EdgeTransition"}
                                        /\ f.node = e.node /\ f.iter = e.iter
      [] e.type = "EdgeTransition"   -> f.type = "NodeStart" /\ f.node = e.to /\ f.iter = e.iter + 1
      [] OTHER                       -> FALSE

C14_AsClaimed ==
    run.pc \in {"top"} \cup Returned => Len(run.path) = run.iterations

\* C14 (amended): iterations never decreases during a call; the number of
\* entries of path equals iterations at the top of the loop and wherever the
\* loop is left, except the return of the iteration cap, where iterations
\* (already incremented) is one more than the number of entries of path.
C14_PathTracksIterations ==
    /\ [](run.pc \in {"top"} \cup Returned
            => Len(run.path) = run.iterations - (IF run.err = "max iterations exceeded" THEN 1 ELSE 0))
    /\ [][run.pc \in Active => run'.iterations \in {run.iterations, run.iterations + 1}]_vars

\* C14 witness: the loop was left by the iteration cap after maxIterations
\* node executions
C14_Witness ==
    /\ run.pc = "failed"
    /\ run.err = "max iterations exceeded"
    /\ Len(run.path) = graph.maxIterations
    /\ run.iterations = graph.maxIterations + 1

\* number of entries of path[1..i] equal to path[i]
Visits(path, i) == Cardinality({j \in 1..i : path[j] = path[i]})

CycleEvents(r, i) == {j \in 1..Len(r.events) : r.events[j].type = "CycleDetected" /\ r.events[j].iter = i}

\* C15: a CycleDetected event is emitted in an iteration exactly when the
\* node of that iteration was visited earlier in the same call; there is one
\* such event per revisiting iteration, and it carries the number of visits
\* of the node so far.
C15_CycleDetected ==
    \A i \in 1..Len(run.path) :
        IF Visits(run.path, i) > 1
        THEN /\ Cardinality(CycleEvents(run, i)) = 1
             /\ \A j \in CycleEvents(run, i) :
                   run.events[j].node = run.path[i] /\ run.events[j].count = Visits(run.path, i)
        ELSE CycleEvents(run, i) = {}

\* C15 witness: a node is visited for the third time, after another node was
\* visited for the first time without an event
C15_Witness ==
    /\ Len(run.path) = MaxIter
    /\ \E j \in 1..Len(run.events) : run.events[j].type = "CycleDetected" /\ run.events[j].count = 3
    /\ \E j \in 1..Len(run.events) : run.events[j].type = "CycleDetected" /\ run.events[j].count = 2

\* C16: once the context is cancelled no node execution begins: the call
\* started or continued on a cancelled context returns, at the top of the
\* loop, a failure whose cause is the cancellation together with the State
\* reached so far; only the node running at the cancellation completes.
C16_CancellationStopsRun ==
    [][ctx = "cancelled"
          => /\ NodeStarts(run') = NodeStarts(run)
             /\ run'.path = run.path
             /\ run.pc = "top"
                   => /\ run'.pc = "failed"
                      /\ run'.err = "execution cancelled"
                      /\ run'.state = run.state
                      /\ run'.current = run.current]_vars

\* C16 witness: the context was cancelled while the second node was running;
\* that node completed, its State was saved and returned with the failure
C16_Witness ==
    /\ run.pc = "failed"
    /\ run.err = "execution cancelled"
    /\ Len(run.path) = 2
    /\ run.state.checkpointNode = run.path[2]
    /\ run.events[Len(run.events)].type = "EdgeTransition"
    /\ EventAt(run, "CheckpointSave", 2)

\* C17: every call that returns success has followed a path whose last
\* element is an exit point of the graph.
C17_SuccessEndsAtExit ==
    run.pc = "completed"
    => /\ run.path # <<>>
       /\ run.path[Len(run.path)] \in graph.exitPoints
       /\ run.current = run.path[Len(run.path)]
       /\ run.state.checkpointNode = run.current

\* C17 witness: an Execute succeeded at the exit point after passing
\* through a node that is not one and has no edge back
C17_Witness ==
    /\ run.kind = "execute"
    /\ run.pc = "completed"
    /\ Len(run.path) = 3
    /\ run.path[1] \notin graph.exitPoints
    /\ run.path[2] \notin graph.exitPoints

\* a worker stands at its send and the result channel is full
BlockedOnSend == \E j \in 1..par.workers : par.w[j].pc = "send" /\ Len(par.ch) >= ResultCap(Len(par.items))

\* C18: ProcessParallel never deadlocks: whatever the number of items, the
\* worker count and the items that fail, no worker ever blocks on
\* submitting a result, and every invocation returns.
C18_NoDeadlock ==
    /\ [](~BlockedOnSend)
    /\ (par.pc = "waiting") ~> (par.pc = "returned")

\* C18 witness: two workers stand at their send at once, a third result
\* already waiting in the channel, in an invocation that has a failure
C18_Witness ==
    /\ par.pc = "waiting"
    /\ \E i, j \in 1..par.workers : i # j /\ par.w[i].pc = "send" /\ par.w[j].pc = "send"
    /\ Len(par.ch) >= 1
    /\ \E i \in 1..Len(par.items) : par.items[i].bad

\* what the outputs must be, from the items and the set of indices that
\* were handed to the processor
RECURSIVE ExpectedResults(_, _, _)
ExpectedResults(items, done, i) ==
    IF i > Len(items) THEN <<>>
    ELSE (IF (i - 1) \in done /\ Processor(items[i]).err = ""
          THEN <<Processor(items[i]).value>> ELSE <<>>) \o ExpectedResults(items, done, i + 1)

RECURSIVE ExpectedErrors(_, _, _)
ExpectedErrors(items, done, i) ==
    IF i > Len(items) THEN <<>>
    ELSE (IF (i - 1) \in done /\ Processor(items[i]).err # ""
          THEN <<[index |-> i - 1, item |-> items[i], err |-> Processor(items[i]).err]>> ELSE <<>>)
         \o ExpectedErrors(items, done, i + 1)

\* C19: for every interleaving of the workers, results lists the values of
\* the successfully processed items in ascending original index, and errors
\* lists the task errors in ascending original index, each with the index
\* and the item that produced it.
C19_OrderPreserved ==
    par.pc = "returned"
    => /\ par.ret.results = ExpectedResults(par.items, par.processed, 1)
       /\ par.ret.errors = ExpectedErrors(par.items, par.processed, 1)

\* C19 witness: an invocation with at least two workers returned two
\* different values and a task error
C19_Witness ==
    /\ par.pc = "returned"
    /\ Len(par.ret.results) >= 2
    /\ par.ret.results[1] # par.ret.results[2]
    /\ Len(par.ret.errors) >= 1
    /\ par.workers >= 2

Failed(items) == {i \in 1..Len(items) : Processor(items[i]).err # ""}

EventPositions(type) == {i \in 1..Len(par.events) : par.events[i].type = type}

\* C22: in both modes ParallelComplete is the last event of an invocation:
\* every WorkerComplete (and WorkerStart) comes before it, every item that
\* was started has its WorkerComplete by then, and once it is emitted no
\* event is added.
C22_ParallelCompleteLast ==
    /\ [](\A i \in EventPositions("ParallelComplete") :
            /\ i = Len(par.events)
            /\ \A k \in EventPositions("WorkerStart") :
                  \E c \in EventPositions("WorkerComplete") :
                      k < c /\ c < i /\ par.events[c].index = par.events[k].index
            /\ \A j \in 1..par.workers : par.w[j].pc = "done")
    /\ [][EventPositions("ParallelComplete") # {} => par'.events = par.events]_vars

\* C22 witness: a fail-fast invocation that was cancelled by a failure and
\* a collect-all invocation would both do; here a fail-fast invocation with
\* two workers has emitted ParallelComplete after the WorkerComplete of a
\* failure and of a success, one item never started
C22_Witness ==
    /\ par.cfg.failFast
    /\ par.workers >= 2
    /\ EventPositions("ParallelComplete") # {}
    /\ \E c, d \in EventPositions("WorkerComplete") : par.events[c].error /\ ~par.events[d].error
    /\ Cardinality(EventPositions("WorkerStart")) < Len(par.items)

\* the indices of the items whose processor call has returned without error
Succeeded == {i \in par.processed : \E j \in 1..Len(par.items) : j = i + 1 /\ ~par.items[j].bad}

\* C23: whatever the interleaving, the counts the progress callback was
\* invoked with are all different and are among 1..(successes so far), and
\* when the invocation returns they are exactly 1..(number of successful
\* items): one invocation per success, none for a failure.
C23_ProgressCounts ==
    /\ \A i, j \in 1..Len(par.calls) : i # j => par.calls[i] # par.calls[j]
    /\ \A i \in 1..Len(par.calls) : par.calls[i] \in 1..Cardinality(Succeeded)
    /\ par.pc = "returned" =>
          /\ Len(par.calls) = Cardinality(Succeeded)
          /\ {par.calls[i] : i \in 1..Len(par.calls)} = 1..Cardinality(Succeeded)

\* C23 witness: the callback got the counts out of order (2 before 1) in an
\* invocation that also had a failed item
C23_Witness ==
    /\ par.pc = "returned"
    /\ Len(par.calls) >= 2
    /\ par.calls[1] = 2
    /\ par.calls[2] = 1
    /\ Len(par.ret.errors) >= 1

\* the last call in the log that names run r (0 when there is none)
RECURSIVE LastWrite(_, _, _)
LastWrite(log, r, i) ==
    IF i = 0 THEN 0 ELSE IF log[i].runID = r THEN i ELSE LastWrite(log, r, i - 1)

\* what Load(r) has to return after the Save and Delete calls of the log
Expected(log, r) ==
    LET i == LastWrite(log, r, Len(log))
    IN  IF i > 0 /\ log[i].op = "Save" THEN <<log[i].state, TRUE>> ELSE <<ZeroState, FALSE>>

\* C24: after any sequence of Save and Delete calls, Load(r) returns the
\* State of the most recent Save for r, field by field, unless there is no
\* Save for r or a Delete(r) came after it, and then it reports not found;
\* the store holds one checkpoint per run at most (List names each run
\* with a checkpoint once).
C24_LoadReturnsLastSave ==
    /\ \A t \in Callers :
          (mstore.th[t].pc = "unlock" /\ mstore.th[t].call.op = "Load")
          => <<mstore.th[t].res.state, mstore.th[t].res.found>> = Expected(mstore.log, mstore.th[t].call.runID)
    /\ \A t \in Callers :
          (mstore.th[t].pc = "unlock" /\ mstore.th[t].call.op = "List")
          => mstore.th[t].res.ids = {r \in RunIDs : Expected(mstore.log, r)[2]}
    /\ mstore.mu.writer = "" => \A r \in RunIDs : Load(mstore.states, r) = Expected(mstore.log, r)

\* C24 witness: a Load returns the second of two different States saved
\* for the same run
C24_Witness ==
    \E t \in Callers :
        /\ mstore.th[t].pc = "unlock"
        /\ mstore.th[t].call.op = "Load"
        /\ mstore.th[t].res.found
        /\ \E i, j \in 1..Len(mstore.log) :
              /\ i < j
              /\ mstore.log[i].op = "Save" /\ mstore.log[j].op = "Save"
              /\ mstore.log[i].runID = mstore.th[t].call.runID
              /\ mstore.log[j].runID = mstore.th[t].call.runID
              /\ mstore.log[i].state # mstore.log[j].state

\* the caller is between its lock and its unlock
InCritical(t) == mstore.th[t].pc \in {"body", "body2", "unlock"}

\* C25: Save and Delete run exclusively and Load and List never overlap a
\* writer, so a Load returns not-found or a State that a Save stored in
\* full, never a partly written one.
C25_StoreLinearizable ==
    /\ \A t, u \in Callers :
          (t # u /\ InCritical(t) /\ InCritical(u))
          => (~Writes(mstore.th[t].call) /\ ~Writes(mstore.th[u].call))
    /\ \A t \in Callers :
          (mstore.th[t].pc = "unlock" /\ mstore.th[t].call.op = "Load" /\ mstore.th[t].res.found)
          => \E i \in 1..Len(mstore.log) :
                 mstore.log[i].op = "Save" /\ mstore.log[i].state = mstore.th[t].res.state

\* C25 witness: a Load of a run waits for the lock while a Save that
\* overwrites the checkpoint of that run is half done
C25_Witness ==
    \E t, u \in Callers :
        /\ mstore.th[t].pc = "lock"
        /\ mstore.th[t].call.op = "Load"
        /\ mstore.th[u].pc = "body2"
        /\ mstore.th[u].call.runID = mstore.th[t].call.runID
        /\ mstore.states[mstore.th[u].call.runID] # mstore.th[u].call.state
        /\ Len(mstore.log) >= 1

\* the caller is inside one of the registry functions, at its map access
InRegistry(t) == registry.th[t].pc \in {"body", "body2"}

\* C26 as claimed: a registration never runs at the same time as another
\* registration or as a lookup on the same registry, and so no lookup ends
\* in the runtime's concurrent-map-access failure.
C26_AsClaimed ==
    /\ \A t, u \in Callers :
          (/\ t # u
           /\ InRegistry(t) /\ InRegistry(u)
           /\ registry.th[t].call.reg = registry.th[u].call.reg)
          => (registry.th[t].call.fn = "Get" /\ registry.th[u].call.fn = "Get")
    /\ \A t \in Callers : registry.th[t].res # "fatal"

\* C28: Set, Merge, Clone and SetCheckpointNode never change a State that
\* exists already: every State obtained so far, receivers and arguments of
\* later operations included, still has the data, checkpointNode and
\* timestamp it had when it was obtained.
C28_StatesImmutable ==
    \A i \in 1..Len(heap.states) : Content(heap.maps, heap.states[i]) = heap.snap[i]

\* C28 witness: after an earlier operation, a Set that overwrites a key of
\* its receiver produced data different from the receiver's
C28_Witness ==
    /\ heap.last.op = "Set"
    /\ Content(heap.maps, heap.states[Len(heap.states)]).data # heap.snap[heap.last.recv].data
    /\ heap.last.key \in DOMAIN heap.snap[heap.last.recv].data
    /\ Len(heap.states) = 4

\* the receiver, the argument and the result of the last operation
Recv == heap.states[heap.last.recv]

Other == heap.states[heap.last.other]

Result == heap.states[Len(heap.states)]

\* C29: the State returned by Clone, Set or Merge has the runID, observer,
\* checkpointNode and timestamp of the receiver; SetCheckpointNode sets
\* checkpointNode and timestamp and keeps runID, observer and data.
C29_ProvenancePropagates ==
    /\ heap.last.op \in {"Clone", "Set", "Merge"}
          => /\ Result.runID = Recv.runID
             /\ Result.observer = Recv.observer
             /\ Result.checkpointNode = Recv.checkpointNode
             /\ Result.timestamp = Recv.timestamp
    /\ heap.last.op = "SetCheckpointNode"
          => /\ Result.runID = Recv.runID
             /\ Result.observer = Recv.observer
             /\ heap.maps[Result.data] = heap.maps[Recv.data]
             /\ Result.checkpointNode = heap.last.node
             /\ Result.timestamp = heap.last.now

\* C29 witness: a Merge whose argument differs from the receiver in runID,
\* observer, checkpointNode and timestamp, the receiver checkpointed before
C29_Witness ==
    /\ heap.last.op = "Merge"
    /\ Recv.runID # Other.runID
    /\ Recv.observer # Other.observer
    /\ Recv.checkpointNode # Other.checkpointNode
    /\ Recv.timestamp # Other.timestamp
    /\ Recv.checkpointNode # ""

\* C30: s1.Merge(s2).Get(k) is s2.Get(k) for a key present in s2 and
\* s1.Get(k) for every other key.
C30_MergeOtherWins ==
    heap.last.op = "Merge"
    => \A k \in Keys :
          StateGet(heap.maps, Result, k) =
              IF StateGet(heap.maps, Other, k)[2] THEN StateGet(heap.maps, Other, k) ELSE StateGet(heap.maps, Recv, k)

\* C30 witness: a Merge of two States that share a key with different
\* values, the receiver having a key the argument has not
C30_Witness ==
    /\ heap.last.op = "Merge"
    /\ \E k \in Keys :
          /\ StateGet(heap.maps, Recv, k)[2] /\ StateGet(heap.maps, Other, k)[2]
          /\ StateGet(heap.maps, Recv, k) # StateGet(heap.maps, Other, k)
    /\ \E k \in Keys : StateGet(heap.maps, Recv, k)[2] /\ ~StateGet(heap.maps, Other, k)[2]

\* what a call returned, the reading of the clock left out
Outcome(r) ==
    [pc |-> r.pc, err |-> r.err, data |-> r.state.data, checkpointNode |-> r.state.checkpointNode,
     current |-> r.current, path |-> r.path, events |-> r.events]

\* C27: two Execute calls on the same graph with States of different
\* runIDs and one store do not interfere: each returns what it returns
\* when run alone, a step of one call leaves the checkpoint of the other
\* run as it is, and a checkpoint is stored under the runID of its State.
C27_RunsDoNotInterfere ==
    /\ [](run.pc \in Returned => Outcome(run) = Outcome(reference))
    /\ [](run2.pc \in Returned => Outcome(run2) = Outcome(reference))
    /\ [](run.pc \in Returned => run.state.runID = "r1")
    /\ [](run2.pc \in Returned => run2.state.runID = "r2")
    /\ [](\A r \in DOMAIN store : store[r].runID = r)
    /\ [][run' # run => (("r2" \in DOMAIN store') <=> ("r2" \in DOMAIN store))
                         /\ ("r2" \in DOMAIN store => store'["r2"] = store["r2"])]_vars
    /\ [][run2' # run2 => (("r1" \in DOMAIN store') <=> ("r1" \in DOMAIN store))
                           /\ ("r1" \in DOMAIN store => store'["r1"] = store["r1"])]_vars

\* C27 witness: the first call has completed and cleaned up while the
\* store holds a checkpoint of the second, which is still running and was
\* started before the first one ended
C27_Witness ==
    /\ run.pc = "completed"
    /\ HasEvent(run, "CheckpointSave")
    /\ "r1" \notin DOMAIN store
    /\ "r2" \in DOMAIN store
    /\ run2.pc \in Active
    /\ run2.iterations < run.iterations

\* the names a graph refers to: its exit points and the endpoints of its
\* edges
Referenced(g) ==
    g.exitPoints \cup UNION {UNION {{g.edges[n][k].From, g.edges[n][k].To} : k \in 1..Len(g.edges[n])} : n \in Nodes}

\* C31: Validate succeeds if and only if the graph has at least one node,
\* an entry point that is set and names an existing node, at least one
\* exit point, and every name it refers to (exit points, edge endpoints)
\* names an existing node.
C31_ValidateIff ==
    build.op = "Validate" =>
        (build.err = "" <=>
            /\ DOMAIN build.g.nodes # {}
            /\ build.g.entryPoint # ""
            /\ build.g.entryPoint \in DOMAIN build.g.nodes
            /\ build.g.exitPoints # {}
            /\ Referenced(build.g) \subseteq DOMAIN build.g.nodes)

\* C31 witness: Validate has accepted a graph that has an edge
C31_Witness ==
    /\ build.op = "Validate"
    /\ build.err = ""
    /\ \E n \in Nodes : build.g.edges[n] # <<>>

\* C40: after any sequence of construction calls, successful or failed,
\* every edge endpoint, the entry point (if set) and every exit point name
\* a node of the node table; no call replaces or removes an existing node;
\* a call that returns an error leaves the graph as it was.
C40_GraphStaysConsistent ==
    /\ [](/\ Referenced(build.g) \subseteq DOMAIN build.g.nodes
          /\ build.g.entryPoint # "" => build.g.entryPoint \in DOMAIN build.g.nodes)
    /\ [][/\ \A n \in DOMAIN build.g.nodes :
                n \in DOMAIN build'.g.nodes /\ build'.g.nodes[n] = build.g.nodes[n]
          /\ build'.err # "" => build'.g = build.g]_vars

\* C40 witness: a construction call has failed on a graph that already has
\* a node, an edge, an entry point and an exit point
C40_Witness ==
    /\ build.op \in {"AddNode", "AddEdge", "SetEntryPoint", "SetExitPoint"}
    /\ build.err # ""
    /\ build.g.entryPoint # ""
    /\ build.g.exitPoints # {}
    /\ \E n \in Nodes : build.g.edges[n] # <<>>

\* the processor folded over the first k items, from the initial state
RECURSIVE FoldTo(_, _, _)
FoldTo(items, k, initial) ==
    IF k = 0 THEN initial ELSE StepProcessor(items[k], FoldTo(items, k - 1, initial)).state

\* step i of the call is reached and the processor fails on it
FailsAt(c, i) ==
    /\ i < Len(c.items)
    /\ c.items[i + 1].bad
    /\ \A k \in 1..i : ~c.items[k].bad
    /\ c.cancelAt \notin 0..i

\* C32: when the processor fails at step i, ProcessChain returns a chain
\* error with stepIndex i, item items[i] and the state that was passed into
\* step i (the fold of steps 0..i-1); no later step has run and the progress
\* callback has not been invoked for step i.
C32_ChainErrorAtFailure ==
    flow.pc = "chain returned" =>
        \A i \in 0..MaxItems :
            FailsAt(flow.call, i) =>
                /\ flow.out.err = [stepIndex |-> i, item |-> flow.call.items[i + 1],
                                   state |-> FoldTo(flow.call.items, i, flow.call.initial),
                                   cause |-> "boom"]
                /\ flow.out.calls = [k \in 1..(i + 1) |-> k - 1]
                /\ flow.out.reported = IF flow.call.progress THEN [k \in 1..i |-> k] ELSE <<>>

\* C32 witness: the processor has failed at a step after the first, with a
\* progress callback, and items left after the failed one
C32_Witness ==
    /\ flow.pc = "chain returned"
    /\ flow.call.progress
    /\ \E i \in 1..MaxItems : FailsAt(flow.call, i) /\ i + 1 < Len(flow.call.items)

\* no processor failure and no cancellation during the call
NoFailure(c) ==
    /\ \A k \in 1..Len(c.items) : ~c.items[k].bad
    /\ c.cancelAt >= Len(c.items)

\* C33 as stated: for n items and no failure, final is the fold, steps is
\* n and, when capturing, intermediate has n+1 entries, for every n.
C33_AsClaimed ==
    (flow.pc = "chain returned" /\ NoFailure(flow.call)) =>
        LET n == Len(flow.call.items)
        IN /\ flow.out.err = NoChainError
           /\ flow.out.final = FoldTo(flow.call.items, n, flow.call.initial)
           /\ flow.out.steps = n
           /\ flow.call.capture =>
                 flow.out.intermediate = [i \in 1..(n + 1) |-> FoldTo(flow.call.items, i - 1, flow.call.initial)]

\* C33: for n items and no failure, ProcessChain returns final equal to
\* the processor folded left to right over the items from initial, with
\* steps = n; when capturing and n >= 1, intermediate has n+1 entries,
\* entry 0 the initial state and entry i the state after step i; for n = 0
\* it returns the initial state, steps = 0 and no intermediate states.
C33_ChainFold ==
    (flow.pc = "chain returned" /\ NoFailure(flow.call)) =>
        LET n == Len(flow.call.items)
        IN /\ flow.out.err = NoChainError
           /\ flow.out.final = FoldTo(flow.call.items, n, flow.call.initial)
           /\ flow.out.steps = n
           /\ (flow.call.capture /\ n >= 1) =>
                 flow.out.intermediate = [i \in 1..(n + 1) |-> FoldTo(flow.call.items, i - 1, flow.call.initial)]
           /\ n = 0 => flow.out.intermediate = <<>>

\* C33 witness: a capturing chain of several items has completed
C33_Witness ==
    /\ flow.pc = "chain returned"
    /\ NoFailure(flow.call)
    /\ flow.call.capture
    /\ Len(flow.call.items) >= 2
    /\ flow.out.final > flow.call.initial

\* C34: ProcessConditional invokes at most one handler per call; when the
\* predicate returns a route (and the context is not cancelled) it is
\* handlers[name] if the name is registered, otherwise the default handler;
\* when neither exists no handler is invoked and the call returns a
\* ConditionalError for that route.
C34_OneHandler ==
    flow.pc = "conditional returned" =>
        LET c == flow.call
            p == RoutePredicate(c.predicate, c.state)
        IN /\ Len(flow.out.invoked) <= 1
           /\ (p.err = "" /\ c.cancel = "never") =>
                 /\ p.route \in DOMAIN c.handlers => flow.out.invoked = <<p.route>>
                 /\ (p.route \notin DOMAIN c.handlers /\ c.default # "none") =>
                       flow.out.invoked = <<"default">>
                 /\ (p.route \notin DOMAIN c.handlers /\ c.default = "none") =>
                       /\ flow.out.invoked = <<>>
                       /\ flow.out.err = [route |-> p.route, state |-> c.state, cause |-> "no handler"]

\* C34 witness: a call whose route is registered, with a default handler
\* next to it, has invoked the registered handler
C34_Witness ==
    /\ flow.pc = "conditional returned"
    /\ flow.call.default # "none"
    /\ flow.call.handlers # <<>>
    /\ Len(flow.out.invoked) = 1
    /\ flow.out.invoked[1] # "default"

\* node executions of the current call that have completed since its most
\* recent successful Save, or since its start when it has saved nothing
Unsaved ==
    (IF run.pc = "node" THEN Len(run.path) - 1 ELSE Len(run.path))
        - (IF HasEvent(run, "CheckpointSave") THEN Len(ghost.saved) - Len(ghost.base) ELSE 0)

\* node executions the interrupted call had completed that are not behind
\* the checkpoint the Resume call started from
Repeated == ghost.prev.done - Len(ghost.base)

\* a Resume call that loaded the checkpoint of an interrupted call and
\* went on from it
ResumedInterrupted ==
    /\ run.kind = "resume"
    /\ ghost.prev.end = "suspended"
    /\ run.pc \in Active

\* C35 as stated: fewer than k node executions of the call have completed
\* since its most recent successful Save at every point of the call, and a
\* Resume after an interruption repeats at most k-1 node executions.
C35_AsClaimed ==
    /\ (run.pc \in Active /\ graph.checkpointInterval > 0) => Unsaved < graph.checkpointInterval
    /\ ResumedInterrupted => Repeated <= graph.checkpointInterval - 1

\* C35: at every point of an Execute or Resume call with checkpoint
\* interval k > 0, at most k node executions of that call have completed
\* since its most recent successful Save (or since its start), and fewer
\* than k except between the completion of a node and the Save that
\* follows it; a Resume after an interruption repeats at most k node
\* executions that had already completed.
C35_SaveEveryK ==
    /\ (run.pc \in Active /\ graph.checkpointInterval > 0) =>
          /\ Unsaved <= graph.checkpointInterval
          /\ run.pc # "save" => Unsaved < graph.checkpointInterval
    /\ ResumedInterrupted => Repeated <= graph.checkpointInterval

\* C35 witness: a Resume call goes on from the checkpoint of a call that
\* died between the completion of a node and its Save, and repeats k
\* node executions
C35_Witness ==
    /\ ResumedInterrupted
    /\ ghost.prev.cut = "save"
    /\ Repeated = graph.checkpointInterval

\* C36 (as claimed): Resume on a run whose previous call completed
\* successfully fails without executing a node, whatever the interval and
\* whether the checkpoints are preserved or not.
C36_AsClaimed ==
    (run.kind = "resume" /\ ghost.prev.end = "completed") => (run.pc = "failed" /\ run.path = <<>>)

\* C37 (as claimed): every Save and the cleanup Delete of an Execute use
\* the runID of the initial State, whatever States the nodes return, so
\* the store never holds a checkpoint under another runID.
C37_AsClaimed == DOMAIN store \subseteq {InitialState.runID}

\* C38 (as claimed): in one Execute or Resume call no outgoing edge of an
\* exit point is evaluated or followed (EdgeEvaluate, EdgeTransition, or
\* the transition CheckpointResume reports), no node is started after an
\* exit point has completed, and an exit point is never reported as a dead
\* end.
C38_AsClaimed ==
    /\ \A i \in 1..Len(run.events) :
          run.events[i].type \in {"EdgeEvaluate", "EdgeTransition", "CheckpointResume"}
              => run.events[i].node \notin graph.exitPoints
    /\ \A i \in 1..(Len(run.path) - 1) : run.path[i] \notin graph.exitPoints
    /\ run.err \in {"no outgoing edges and not an exit point", "no outgoing edges from node"}
          => run.current \notin graph.exitPoints

\* how many times the item of index i has been handed to the processor:
\* WorkerStart is emitted once for each hand-over
Handed(i) ==
    Cardinality({k \in 1..Len(par.events) : par.events[k].type = "WorkerStart" /\ par.events[k].index = i})

\* C39: with failFast false (the caller does not cancel), no item is handed
\* to the processor twice, and when ProcessParallel returns every item has
\* been handed to it exactly once, failures of siblings or not, and is in
\* exactly one of results and errors (the failed ones in errors), so
\* len(results) + len(errors) = len(items).
C39_CollectAll ==
    ~par.cfg.failFast =>
        LET all == 0..(Len(par.items) - 1)
        IN /\ \A i \in all : Handed(i) <= 1
           /\ DOMAIN par.results \cap DOMAIN par.errors = {}
           /\ (par.pc = "returned" /\ par.items # <<>>) =>
                 /\ \A i \in all : Handed(i) = 1
                 /\ par.processed = all
                 /\ DOMAIN par.errors = {i \in all : par.items[i + 1].bad}
                 /\ DOMAIN par.results = {i \in all : ~par.items[i + 1].bad}
                 /\ Len(par.ret.results) + Len(par.ret.errors) = Len(par.items)

\* C39 witness: a collect-all invocation with several workers has returned
\* with failed and successful items, a failure first
C39_Witness ==
    /\ par.pc = "returned"
    /\ ~par.cfg.failFast
    /\ par.workers >= 2
    /\ Len(par.items) >= 3
    /\ par.items[1].bad
    /\ par.ret.results # <<>>
    /\ par.ret.errors # <<>>
====
